---- MODULE Spec2Model ----
(***************************************************************************)
(* TP1 CG: an interactive 2D drawing tool (tp1 package).  The module       *)
(* models the raster-geometry core (clipping, transforms, selection        *)
(* geometry, scene operations) and the event handling of the application   *)
(* as wired in tp1/app.py.                                                 *)
(*                                                                         *)
(* Numbers.  The program computes intersections and scale factors in       *)
(* floating point and rounds with Python's round() (round half to even).   *)
(* Here such a value is the exact fraction num/den (den > 0) and           *)
(* round_half_even rounds it the way round() does.                         *)
(***************************************************************************)
EXTENDS Integers, Sequences, FiniteSets, TLC

VARIABLES
    call,       \* the arguments of the pure function under study
    ret,        \* what the function returned for them
    scene,      \* Scene: lines and circles
    state,      \* AppState
    stt,        \* the gesture fields of the SelectTransformTool instance
    cwt,        \* the gesture fields of the ClipWindowTool instance
    last_mode,  \* EventDispatcher._last_mode
    run,        \* "running", "quit", or the exception that ended the main loop
    last,       \* history: the last input handled, or the frame noted by DrawOverlay
    clicks,     \* history: how many times a mouse button went down over the canvas
    switches,   \* history: how many times state.mode has changed
    moves       \* history: how many pointer motions the gesture in progress has handled

pureVars == <<call, ret>>
appVars == <<scene, state, stt, cwt, last_mode, run, last, clicks, switches, moves>>
vars == <<call, ret, scene, state, stt, cwt, last_mode, run, last, clicks, switches, moves>>

(***************************************************************************)
(* Bounds of the model.                                                    *)
(***************************************************************************)
MinCoord == 0 - 1
MaxCoord == 4
MaxRectSide == 2
MaxCSIter == 8

Abs(n) == IF n < 0 THEN 0 - n ELSE n
Max(a, b) == IF a >= b THEN a ELSE b
Min(a, b) == IF a <= b THEN a ELSE b

(***************************************************************************)
(* int(round(num/den)) for den # 0: Python 3 rounds halves to the even     *)
(* neighbour.                                                              *)
(***************************************************************************)
round_half_even(num, den) ==
    LET n == IF den < 0 THEN 0 - num ELSE num
        d == Abs(den)
        q == n \div d
        r == n % d
    IN  IF 2 * r < d THEN q
        ELSE IF 2 * r > d THEN q + 1
        ELSE IF q % 2 = 0 THEN q ELSE q + 1

Point(x, y) == [x |-> x, y |-> y]
Rect4(l, t, w, h) == [left |-> l, top |-> t, width |-> w, height |-> h]

(***************************************************************************)
(* algorithms/clipping/cohen_sutherland.py                                 *)
(***************************************************************************)
INSIDE == 0
LEFT == 1
RIGHT == 2
BOTTOM == 4
TOP == 8

\* a slip: the far edges taken one pixel beyond left + width, top + height
edges_one_beyond(rect) ==
    [left |-> rect.left, top |-> rect.top,
     right |-> rect.left + rect.width + 1, bottom |-> rect.top + rect.height + 1]

edges(rect) ==
    [left |-> rect.left, top |-> rect.top,
     right |-> rect.left + rect.width, bottom |-> rect.top + rect.height]

\* code & bit # 0, for a single-bit mask
HasBit(code, bit) == (code \div bit) % 2 = 1
\* code0 & code1 # 0
CodesMeet(code0, code1) ==
    \E bit \in {LEFT, RIGHT, BOTTOM, TOP} : HasBit(code0, bit) /\ HasBit(code1, bit)

code(x, y, rect) ==
    LET e == edges(rect)
        cx == IF x < e.left THEN LEFT ELSE IF x > e.right THEN RIGHT ELSE INSIDE
        cy == IF y < e.top THEN TOP ELSE IF y > e.bottom THEN BOTTOM ELSE INSIDE
    IN  cx + cy

NoneResult == [kind |-> "None", x0 |-> 0, y0 |-> 0, x1 |-> 0, y1 |-> 0]
Endpoints(x0, y0, x1, y1) == [kind |-> "Some", x0 |-> x0, y0 |-> y0, x1 |-> x1, y1 |-> y1]
\* the loop did not return within the iterations the model follows
Unfinished == [kind |-> "Unfinished", x0 |-> 0, y0 |-> 0, x1 |-> 0, y1 |-> 0]

\* a slip: the pass computes the intersection and its code, but assigns the
\* rounded coordinates to neither endpoint
cs_clip_once_unassigned(x0, y0, x1, y1, rect) == <<x0, y0, x1, y1>>

\* One pass of the body of `while True` for a segment that is neither accepted
\* nor rejected: the endpoint with the non-zero code (the first one when both
\* are outside) is moved to the first boundary in the order TOP, BOTTOM,
\* RIGHT, LEFT, and rounded.
cs_clip_once(x0, y0, x1, y1, rect) ==
    LET e == edges(rect)
        code0 == code(x0, y0, rect)
        code1 == code(x1, y1, rect)
        code_out == IF code0 # 0 THEN code0 ELSE code1
        new ==
            IF HasBit(code_out, TOP) THEN
                [x |-> IF y1 # y0
                       THEN round_half_even(x0 * (y1 - y0) + (x1 - x0) * (e.top - y0), y1 - y0)
                       ELSE x0,
                 y |-> e.top]
            ELSE IF HasBit(code_out, BOTTOM) THEN
                [x |-> IF y1 # y0
                       THEN round_half_even(x0 * (y1 - y0) + (x1 - x0) * (e.bottom - y0), y1 - y0)
                       ELSE x0,
                 y |-> e.bottom]
            ELSE IF HasBit(code_out, RIGHT) THEN
                [x |-> e.right,
                 y |-> IF x1 # x0
                       THEN round_half_even(y0 * (x1 - x0) + (y1 - y0) * (e.right - x0), x1 - x0)
                       ELSE y0]
            ELSE
                [x |-> e.left,
                 y |-> IF x1 # x0
                       THEN round_half_even(y0 * (x1 - x0) + (y1 - y0) * (e.left - x0), x1 - x0)
                       ELSE y0]
    IN  IF code_out = code0
        THEN <<new.x, new.y, x1, y1>>
        ELSE <<x0, y0, new.x, new.y>>

RECURSIVE cs_loop(_, _, _, _, _, _)
cs_loop(x0, y0, x1, y1, rect, fuel) ==
    LET code0 == code(x0, y0, rect)
        code1 == code(x1, y1, rect)
    IN  IF code0 = INSIDE /\ code1 = INSIDE THEN Endpoints(x0, y0, x1, y1)
        ELSE IF CodesMeet(code0, code1) THEN NoneResult
        ELSE IF fuel = 0 THEN Unfinished
        ELSE LET n == cs_clip_once(x0, y0, x1, y1, rect)
             IN  cs_loop(n[1], n[2], n[3], n[4], rect, fuel - 1)

cohen_sutherland_clip(p0, p1, rect) ==
    cs_loop(p0.x, p0.y, p1.x, p1.y, rect, MaxCSIter)

(***************************************************************************)
(* algorithms/clipping/liang_barsky.py                                     *)
(* u0 and u1 are fractions <<num, den>> with den > 0.                      *)
(***************************************************************************)
Frac(n, d) == IF d < 0 THEN <<0 - n, 0 - d>> ELSE <<n, d>>
FracLess(a, b) == a[1] * b[2] < b[1] * a[2]

\* One pass of `for pi, qi in zip(p, q)`: st = [u0, u1, rejected].
lb_constraint(st, pi, qi) ==
    IF st.rejected THEN st
    ELSE IF pi = 0 THEN
        IF qi < 0 THEN [st EXCEPT !.rejected = TRUE] ELSE st
    ELSE LET r == Frac(qi, pi)
         IN  IF pi < 0 THEN
                 IF FracLess(st.u1, r) THEN [st EXCEPT !.rejected = TRUE]
                 ELSE IF FracLess(st.u0, r) THEN [st EXCEPT !.u0 = r]
                 ELSE st
             ELSE
                 IF FracLess(r, st.u0) THEN [st EXCEPT !.rejected = TRUE]
                 ELSE IF FracLess(r, st.u1) THEN [st EXCEPT !.u1 = r]
                 ELSE st

\* a slip: the second endpoint is measured from the clipped first endpoint
\* instead of p0
liang_barsky_clip_from_clipped(p0, p1, rect) ==
    LET e == edges(rect)
        x0 == p0.x
        y0 == p0.y
        dx == p1.x - p0.x
        dy == p1.y - p0.y
        p == <<0 - dx, dx, 0 - dy, dy>>
        q == <<x0 - e.left, e.right - x0, y0 - e.top, e.bottom - y0>>
        s0 == [u0 |-> <<0, 1>>, u1 |-> <<1, 1>>, rejected |-> FALSE]
        s1 == lb_constraint(s0, p[1], q[1])
        s2 == lb_constraint(s1, p[2], q[2])
        s3 == lb_constraint(s2, p[3], q[3])
        s4 == lb_constraint(s3, p[4], q[4])
        nx0 == round_half_even(x0 * s4.u0[2] + s4.u0[1] * dx, s4.u0[2])
        ny0 == round_half_even(y0 * s4.u0[2] + s4.u0[1] * dy, s4.u0[2])
    IN  IF s4.rejected THEN NoneResult
        ELSE Endpoints(nx0, ny0,
                round_half_even(nx0 * s4.u1[2] + s4.u1[1] * dx, s4.u1[2]),
                round_half_even(ny0 * s4.u1[2] + s4.u1[1] * dy, s4.u1[2]))

liang_barsky_clip(p0, p1, rect) ==
    LET e == edges(rect)
        x0 == p0.x
        y0 == p0.y
        dx == p1.x - p0.x
        dy == p1.y - p0.y
        p == <<0 - dx, dx, 0 - dy, dy>>
        q == <<x0 - e.left, e.right - x0, y0 - e.top, e.bottom - y0>>
        s0 == [u0 |-> <<0, 1>>, u1 |-> <<1, 1>>, rejected |-> FALSE]
        s1 == lb_constraint(s0, p[1], q[1])
        s2 == lb_constraint(s1, p[2], q[2])
        s3 == lb_constraint(s2, p[3], q[3])
        s4 == lb_constraint(s3, p[4], q[4])
    IN  IF s4.rejected THEN NoneResult
        ELSE Endpoints(
                round_half_even(x0 * s4.u0[2] + s4.u0[1] * dx, s4.u0[2]),
                round_half_even(y0 * s4.u0[2] + s4.u0[1] * dy, s4.u0[2]),
                round_half_even(x0 * s4.u1[2] + s4.u1[1] * dx, s4.u1[2]),
                round_half_even(y0 * s4.u1[2] + s4.u1[1] * dy, s4.u1[2]))

(***************************************************************************)
(* scene/models.py, scene/ops.py                                           *)
(***************************************************************************)
Line(p0, p1, algo) == [p0 |-> p0, p1 |-> p1, algo |-> algo]

\* `selected: set[int] | None`
NoneSelected == [given |-> FALSE, idx |-> {}]
Selected(s) == [given |-> TRUE, idx |-> s]

clip_with(algo, ln, rect) ==
    IF algo = "CS" THEN cohen_sutherland_clip(ln.p0, ln.p1, rect)
    ELSE liang_barsky_clip(ln.p0, ln.p1, rect)

\* a slip: the rebuilt line is tagged "DDA" whatever the tag of the old line
RECURSIVE clip_each_default_tag(_, _, _, _, _, _)
clip_each_default_tag(lines, rect, algo, selected, i, acc) ==
    IF i >= Len(lines) THEN acc
    ELSE LET ln == lines[i + 1]
             affected_none == ~selected.given \/ selected.idx = {}
         IN  IF ~affected_none /\ i \notin selected.idx THEN
                 clip_each_default_tag(lines, rect, algo, selected, i + 1,
                                       [acc EXCEPT !.lines = Append(@, ln)])
             ELSE LET res == clip_with(algo, ln, rect)
                  IN  IF res.kind = "None" THEN
                          clip_each_default_tag(lines, rect, algo, selected, i + 1,
                                                [acc EXCEPT !.removed = @ + 1])
                      ELSE
                          clip_each_default_tag(lines, rect, algo, selected, i + 1,
                                                [acc EXCEPT
                                                    !.lines = Append(@, Line(Point(res.x0, res.y0),
                                                                             Point(res.x1, res.y1), "DDA")),
                                                    !.kept = @ + 1])

\* `for i, ln in enumerate(scene.lines)` from index i on; acc = [lines, kept, removed].
\* Python indices start at 0: line i is lines[i + 1].
RECURSIVE clip_each(_, _, _, _, _, _)
clip_each(lines, rect, algo, selected, i, acc) ==
    IF i >= Len(lines) THEN acc
    ELSE LET ln == lines[i + 1]
             affected_none == ~selected.given \/ selected.idx = {}
         IN  IF ~affected_none /\ i \notin selected.idx THEN
                 clip_each(lines, rect, algo, selected, i + 1,
                           [acc EXCEPT !.lines = Append(@, ln)])
             ELSE LET res == clip_with(algo, ln, rect)
                  IN  IF res.kind = "None" THEN
                          clip_each(lines, rect, algo, selected, i + 1,
                                    [acc EXCEPT !.removed = @ + 1])
                      ELSE
                          clip_each(lines, rect, algo, selected, i + 1,
                                    [acc EXCEPT
                                        !.lines = Append(@, Line(Point(res.x0, res.y0),
                                                                 Point(res.x1, res.y1), ln.algo)),
                                        !.kept = @ + 1])

\* a slip: a line outside the selection is counted as kept
apply_clipping_counts_passed(lines, rect, algo, selected) ==
    LET r == clip_each(lines, rect, algo, selected, 0, [lines |-> <<>>, kept |-> 0, removed |-> 0])
        passed == { j \in 0 .. Len(lines) - 1 :
                      selected.given /\ selected.idx # {} /\ j \notin selected.idx }
    IN  [r EXCEPT !.kept = @ + Cardinality(passed)]

\* the lines at the indices of S, in the order of the list
PickLines(lines, S) ==
    LET V == { i \in S : 0 <= i /\ i < Len(lines) }
    IN  [k \in 1 .. Cardinality(V) |->
            lines[(CHOOSE i \in V : Cardinality({ j \in V : j <= i }) = k) + 1]]

\* a slip: the clipped lines come first and the lines outside the selection
\* are put after them
apply_clipping_passes_last(lines, rect, algo, selected) ==
    IF ~selected.given \/ selected.idx = {}
    THEN clip_each(lines, rect, algo, selected, 0, [lines |-> <<>>, kept |-> 0, removed |-> 0])
    ELSE LET r == clip_each(PickLines(lines, selected.idx), rect, algo, NoneSelected, 0,
                            [lines |-> <<>>, kept |-> 0, removed |-> 0])
         IN  [r EXCEPT !.lines = @ \o PickLines(lines, (0 .. Len(lines) - 1) \ selected.idx)]

\* returns the rebuilt scene.lines with the (kept, removed) pair
apply_clipping_to_lines(lines, rect, algo, selected) ==
    clip_each(lines, rect, algo, selected, 0, [lines |-> <<>>, kept |-> 0, removed |-> 0])

(***************************************************************************)
(* Conventions of the application model.  A Python value that may be None  *)
(* is a sequence: <<>> for None, <<v>> for the value v.  A point (x, y)    *)
(* handed around as a tuple is <<x, y>>.  A coordinate that the code holds *)
(* as a float with a possible half (a bbox centre) is kept doubled, so     *)
(* the pivot (cx, cy) is <<2*cx, 2*cy>>.                                   *)
(***************************************************************************)
None == <<>>
Some(v) == <<v>>

\* config.py
UI_W == 220
CANVAS_W == 780
CANVAS_H == 650
HANDLE_SIZE == 10
HANDLE_HIT_PAD == 4
ROT_HANDLE_OFFSET == 26
ROT_HANDLE_TOP_MARGIN == 8
ROT_STEM_HIT_RADIUS == 6

Circle(c, r) == [c |-> c, r |-> IF r < 0 THEN 0 ELSE r, algo |-> "BRESENHAM"]

SetMin(S) == CHOOSE m \in S : \A x \in S : m <= x
SetMax(S) == CHOOSE m \in S : \A x \in S : m >= x

\* int(n2 / 2.0): truncation toward zero
int_half(n2) == IF n2 >= 0 THEN n2 \div 2 ELSE 0 - ((0 - n2) \div 2)

\* the largest r with r * r <= n, by Newton's iteration from x
RECURSIVE isqrt_from(_, _)
isqrt_from(n, x) ==
    LET y == (x + n \div x) \div 2
    IN  IF y >= x THEN x ELSE isqrt_from(n, y)

isqrt(n) == IF n = 0 THEN 0 ELSE isqrt_from(n, n)

\* int(round(math.hypot(dx, dy))): a square root of an integer is never a half
round_hypot(dx, dy) ==
    LET n == dx * dx + dy * dy
        f == isqrt(n)
    IN  IF n - f * f <= f THEN f ELSE f + 1

\* pygame.Rect: false when it has no area; collidepoint excludes the right
\* and the bottom edge
rect_bool(rect) == rect.width # 0 /\ rect.height # 0

collidepoint(rect, x, y) ==
    /\ rect.left <= x /\ x < rect.left + rect.width
    /\ rect.top <= y /\ y < rect.top + rect.height

rect_from_points(a, b) ==
    Rect4(Min(a[1], b[1]), Min(a[2], b[2]), Abs(b[1] - a[1]), Abs(b[2] - a[2]))

HandleKeys == <<"nw", "n", "ne", "e", "se", "s", "sw", "w">>

bbox_handles(rect, rot_offset) ==
    LET l == rect.left
        t == rect.top
        r == l + rect.width
        b == t + rect.height
        cx == int_half(2 * l + rect.width)
        cy == int_half(2 * t + rect.height)
    IN  [nw |-> <<l, t>>, n |-> <<cx, t>>, ne |-> <<r, t>>, e |-> <<r, cy>>,
         se |-> <<r, b>>, s |-> <<cx, b>>, sw |-> <<l, b>>, w |-> <<l, cy>>,
         rot |-> <<cx, Max(ROT_HANDLE_TOP_MARGIN, t - rot_offset)>>]

OPPOSITE ==
    [nw |-> "se", n |-> "s", ne |-> "sw", e |-> "w",
     se |-> "nw", s |-> "n", sw |-> "ne", w |-> "e"]

affects_axes(handle) ==
    IF handle \in {"n", "s"} THEN <<FALSE, TRUE>>
    ELSE IF handle \in {"e", "w"} THEN <<TRUE, FALSE>>
    ELSE <<TRUE, TRUE>>

\* the first of the eight square handles that holds the mouse, from key k on
RECURSIVE first_square_hit(_, _, _, _)
first_square_hit(centers, mx, my, k) ==
    IF k > Len(HandleKeys) THEN None
    ELSE LET size == HANDLE_SIZE + 2 * HANDLE_HIT_PAD
             half == size \div 2
             c == centers[HandleKeys[k]]
         IN  IF collidepoint(Rect4(c[1] - half, c[2] - half, size, size), mx, my)
             THEN Some(HandleKeys[k])
             ELSE first_square_hit(centers, mx, my, k + 1)

\* the mouse is within the stem radius of the segment from the n handle to
\* the knob.  Both ends have the same x, so v = (0, vy), the clamped
\* t = tn/seg_len2 gives t * vx = 0 and t * vy = tn / vy exactly.
stem_hit(centers, mx, my) ==
    LET nx == centers.n[1]
        ny == centers.n[2]
        vx == centers.rot[1] - nx
        vy == centers.rot[2] - ny
        wx == mx - nx
        wy == my - ny
        seg_len2 == vx * vx + vy * vy
        dotp == wx * vx + wy * vy
        tn == IF dotp < 0 THEN 0 ELSE IF dotp > seg_len2 THEN seg_len2 ELSE dotp
        t_vy == (tn \div Abs(vy)) * (IF vy < 0 THEN 0 - 1 ELSE 1)
        dx == wx
        dy == wy - t_vy
    IN  /\ seg_len2 > 0
        /\ dx * dx + dy * dy <= ROT_STEM_HIT_RADIUS * ROT_STEM_HIT_RADIUS

hit_test_handle(bbox, mouse) ==
    LET centers == bbox_handles(bbox, ROT_HANDLE_OFFSET)
        mx == mouse[1]
        my == mouse[2]
        sq == first_square_hit(centers, mx, my, 1)
        rx == centers.rot[1]
        ry == centers.rot[2]
        r_knob == Max(HANDLE_SIZE \div 2 + HANDLE_HIT_PAD + 3, 10)
    IN  IF sq # None THEN sq
        ELSE IF (mx - rx) * (mx - rx) + (my - ry) * (my - ry) <= r_knob * r_knob
             THEN Some("rot")
        ELSE IF stem_hit(centers, mx, my) THEN Some("rot")
        ELSE None

(***************************************************************************)
(* state.py: AppState() as constructed.  TransformState.pivot,             *)
(* anchor_angle and anchor_dist are written by reset() only and are left   *)
(* out; state.status, the cursor and the pixels of the canvas are output   *)
(* only and are left out too.  ClipState has no preview_algo field: the    *)
(* attribute is "absent" until app.py assigns it.                          *)
(***************************************************************************)
InitSelection ==
    [selecting |-> FALSE, anchor |-> None, current |-> None,
     selected_lines |-> {}, selected_circles |-> {}]

InitTransform ==
    [anchor |-> None, dragging |-> FALSE, lines_snapshot |-> {}, circles_snapshot |-> {}]

InitClipState ==
    [anchor |-> None, current |-> None, setting |-> FALSE, window |-> None,
     preview_algo |-> "absent"]

InitState ==
    [mode |-> "IDLE", selection |-> InitSelection, transform |-> InitTransform,
     clip |-> InitClipState, pending_line_start |-> None, pending_circle_center |-> None]

InitScene == [lines |-> <<>>, circles |-> <<>>]

\* SelectTransformTool's gesture fields.  _anchor_angle is kept as a vector
\* with that angle: 0.0 is <<1, 0>>.
InitSelectTool ==
    [handle |-> None, mode |-> "None", bbox0 |-> None, pivot |-> None, h0 |-> None,
     anchor_angle |-> <<1, 0>>]

\* ClipWindowTool's gesture fields
InitClipTool ==
    [handle |-> None, anchor |-> None, mode |-> "None", rect0 |-> None,
     keep_aspect |-> FALSE, from_center |-> FALSE]

(***************************************************************************)
(* tools/select_transform.py.  A handler is an operator from the world w   *)
(* = [scene, state, stt, cwt, last_mode, run] before the event to the      *)
(* world after it.                                                         *)
(***************************************************************************)
\* a slip: a circle counts by its centre, the radius is left out
selection_bbox_of_centres(the_scene, the_state) ==
    LET sl == { i \in the_state.selection.selected_lines : 0 <= i /\ i < Len(the_scene.lines) }
        sc == { i \in the_state.selection.selected_circles : 0 <= i /\ i < Len(the_scene.circles) }
        xs == UNION { {the_scene.lines[i + 1].p0.x, the_scene.lines[i + 1].p1.x} : i \in sl }
              \cup { the_scene.circles[i + 1].c.x : i \in sc }
        ys == UNION { {the_scene.lines[i + 1].p0.y, the_scene.lines[i + 1].p1.y} : i \in sl }
              \cup { the_scene.circles[i + 1].c.y : i \in sc }
    IN  IF xs = {} \/ ys = {} THEN None
        ELSE Some(Rect4(SetMin(xs), SetMin(ys), SetMax(xs) - SetMin(xs), SetMax(ys) - SetMin(ys)))

selection_bbox(the_scene, the_state) ==
    LET sl == { i \in the_state.selection.selected_lines : 0 <= i /\ i < Len(the_scene.lines) }
        sc == { i \in the_state.selection.selected_circles : 0 <= i /\ i < Len(the_scene.circles) }
        xs == UNION { {the_scene.lines[i + 1].p0.x, the_scene.lines[i + 1].p1.x} : i \in sl }
              \cup UNION { {the_scene.circles[i + 1].c.x - the_scene.circles[i + 1].r,
                            the_scene.circles[i + 1].c.x + the_scene.circles[i + 1].r} : i \in sc }
        ys == UNION { {the_scene.lines[i + 1].p0.y, the_scene.lines[i + 1].p1.y} : i \in sl }
              \cup UNION { {the_scene.circles[i + 1].c.y - the_scene.circles[i + 1].r,
                            the_scene.circles[i + 1].c.y + the_scene.circles[i + 1].r} : i \in sc }
    IN  IF xs = {} \/ ys = {} THEN None
        ELSE Some(Rect4(SetMin(xs), SetMin(ys), SetMax(xs) - SetMin(xs), SetMax(ys) - SetMin(ys)))

\* `if bx:` for bx a pygame.Rect or None
bbox_bool(bx) == bx # None /\ rect_bool(bx[1])

\* the snapshot comprehensions of _begin_move, _begin_scale and _begin_rotate
take_snapshot(w, cpos) ==
    LET ls == w.scene.lines
        cs == w.scene.circles
    IN  [dragging |-> TRUE,
         anchor |-> Some(cpos),
         lines_snapshot |->
             { <<i, <<ls[i + 1].p0.x, ls[i + 1].p0.y, ls[i + 1].p1.x, ls[i + 1].p1.y>>>> :
                 i \in { j \in w.state.selection.selected_lines : 0 <= j /\ j < Len(ls) } },
         circles_snapshot |->
             { <<i, <<cs[i + 1].c.x, cs[i + 1].c.y, cs[i + 1].r>>>> :
                 i \in { j \in w.state.selection.selected_circles : 0 <= j /\ j < Len(cs) } }]

begin_move(w, cpos) ==
    [w EXCEPT !.state.transform = take_snapshot(w, cpos),
              !.stt.mode = "moving"]

begin_scale(w, handle, cpos, alt) ==
    LET bx == selection_bbox(w.scene, w.state)
    IN  IF ~bbox_bool(bx) THEN w
        ELSE LET centers == bbox_handles(bx[1], ROT_HANDLE_OFFSET)
                 pivot == IF alt
                          THEN <<2 * bx[1].left + bx[1].width, 2 * bx[1].top + bx[1].height>>
                          ELSE <<2 * centers[OPPOSITE[handle]][1], 2 * centers[OPPOSITE[handle]][2]>>
             IN  [w EXCEPT !.stt.bbox0 = bx,
                           !.stt.handle = Some(handle),
                           !.stt.h0 = Some(centers[handle]),
                           !.stt.pivot = Some(pivot),
                           !.state.transform = take_snapshot(w, cpos),
                           !.stt.mode = "scaling"]

begin_rotate(w, cpos) ==
    LET bx == selection_bbox(w.scene, w.state)
    IN  IF ~bbox_bool(bx) THEN w
        ELSE LET cx2 == 2 * bx[1].left + bx[1].width
                 cy2 == 2 * bx[1].top + bx[1].height
                 ax2 == 2 * cpos[1] - cx2
                 ay2 == 2 * cpos[2] - cy2
             IN  [w EXCEPT !.stt.pivot = Some(<<cx2, cy2>>),
                           !.stt.anchor_angle =
                               IF ax2 # 0 \/ ay2 # 0 THEN <<ax2, ay2>> ELSE <<1, 0>>,
                           !.state.transform = take_snapshot(w, cpos),
                           !.stt.mode = "rotating"]

\* the entry of snapshot snap for index i, or None
snap_of(snap, i) ==
    IF \E s \in snap : s[1] = i THEN Some((CHOOSE s \in snap : s[1] = i)[2]) ELSE None

\* write the coordinates ls[i] over line i and cs[i] over circle i, for the
\* indices that are in range; ls and cs are sets of <<i, coordinates>>
write_snapshot(w, ls, cs) ==
    [w EXCEPT
        !.scene.lines =
            [j \in 1 .. Len(@) |->
                LET n == snap_of(ls, j - 1)
                IN  IF n = None THEN @[j]
                    ELSE [@[j] EXCEPT !.p0 = Point(n[1][1], n[1][2]),
                                      !.p1 = Point(n[1][3], n[1][4])]],
        !.scene.circles =
            [j \in 1 .. Len(@) |->
                LET n == snap_of(cs, j - 1)
                IN  IF n = None THEN @[j]
                    ELSE [@[j] EXCEPT !.c = Point(n[1][1], n[1][2]), !.r = n[1][3]]]]

\* a slip: the offset is added to each primitive where it is now
apply_move_incremental(w, cpos) ==
    LET tr == w.state.transform
        dx == cpos[1] - tr.anchor[1][1]
        dy == cpos[2] - tr.anchor[1][2]
    IN  IF ~(tr.dragging /\ tr.anchor # None) THEN w
        ELSE [w EXCEPT
                !.scene.lines =
                    [j \in 1 .. Len(@) |->
                        IF snap_of(tr.lines_snapshot, j - 1) = None THEN @[j]
                        ELSE [@[j] EXCEPT !.p0 = Point(@.x + dx, @.y + dy),
                                          !.p1 = Point(@.x + dx, @.y + dy)]],
                !.scene.circles =
                    [j \in 1 .. Len(@) |->
                        IF snap_of(tr.circles_snapshot, j - 1) = None THEN @[j]
                        ELSE [@[j] EXCEPT !.c = Point(@.x + dx, @.y + dy)]]]

apply_move(w, cpos) ==
    LET tr == w.state.transform
    IN  IF ~(tr.dragging /\ tr.anchor # None) THEN w
        ELSE LET dx == cpos[1] - tr.anchor[1][1]
                 dy == cpos[2] - tr.anchor[1][2]
                 f(c) == <<c[1] + dx, c[2] + dy, c[3] + dx, c[4] + dy>>
                 g(c) == <<c[1] + dx, c[2] + dy, c[3]>>
             IN  write_snapshot(w, { <<e[1], f(e[2])>> : e \in tr.lines_snapshot },
                                   { <<e[1], g(e[2])>> : e \in tr.circles_snapshot })

\* a scale factor is the fraction <<n, d>>, d # 0
FracAbsGeq(a, b) == Abs(a[1]) * Abs(b[2]) >= Abs(b[1]) * Abs(a[2])
FracNeg(a) == (a[1] < 0 /\ a[2] > 0) \/ (a[1] > 0 /\ a[2] < 0)

\* math.copysign(abs(s), t if t != 0 else 1.0)
copysign_abs(s, t) ==
    IF FracNeg(t) THEN <<0 - Abs(s[1]), Abs(s[2])>> ELSE <<Abs(s[1]), Abs(s[2])>>

\* a slip: the pivot and the scaled offset are rounded each by itself
scale_coord_rounds_pivot(p, c2, s) ==
    round_half_even(c2, 2) + round_half_even(s[1] * (2 * p - c2), 2 * s[2])

\* utils/transforms.py: int(round(c + s * (p - c))) for the doubled centre c2
scale_coord_i(p, c2, s) ==
    round_half_even(c2 * s[2] + s[1] * (2 * p - c2), 2 * s[2])

scale_point_xy_i(px, py, c2, sx, sy) ==
    <<scale_coord_i(px, c2[1], sx), scale_coord_i(py, c2[2], sy)>>

\* the factors _apply_scale derives from the pointer, the grabbed handle's
\* centre and the pivot
scale_factors(handle, h0, pivot2, cpos, uniform) ==
    LET affect == affects_axes(handle)
        denom_x == 2 * h0[1] - pivot2[1]
        denom_y == 2 * h0[2] - pivot2[2]
        sx == IF affect[1] /\ denom_x # 0 THEN <<2 * cpos[1] - pivot2[1], denom_x>> ELSE <<1, 1>>
        sy == IF affect[2] /\ denom_y # 0 THEN <<2 * cpos[2] - pivot2[2], denom_y>> ELSE <<1, 1>>
    IN  IF uniform /\ affect[1] /\ affect[2]
        THEN IF FracAbsGeq(sx, sy) THEN <<sx, copysign_abs(sx, sy)>>
             ELSE <<copysign_abs(sy, sx), sy>>
        ELSE <<sx, sy>>

\* a slip: the radius follows the signed factor and is not clamped
scaled_radius_signed(r0, sx, sy, uniform) ==
    LET sr == IF uniform \/ FracAbsGeq(sx, sy) THEN sx ELSE sy
    IN  round_half_even(r0 * sr[1], sr[2])

\* max(0, int(round(r0 * sr)))
scaled_radius(r0, sx, sy, uniform) ==
    LET sr == IF uniform \/ FracAbsGeq(sx, sy) THEN sx ELSE sy
    IN  Max(0, round_half_even(r0 * Abs(sr[1]), Abs(sr[2])))

apply_scale(w, cpos, uniform) ==
    IF w.stt.mode # "scaling" \/ w.stt.handle = None \/ w.stt.bbox0 = None \/ w.stt.pivot = None
    THEN w
    ELSE LET h0 == IF w.stt.h0 # None THEN w.stt.h0[1] ELSE cpos
             pv == w.stt.pivot[1]
             s == scale_factors(w.stt.handle[1], h0, pv, cpos, uniform)
             f(c) == scale_point_xy_i(c[1], c[2], pv, s[1], s[2])
                     \o scale_point_xy_i(c[3], c[4], pv, s[1], s[2])
             g(c) == scale_point_xy_i(c[1], c[2], pv, s[1], s[2])
                     \o <<scaled_radius(c[3], s[1], s[2], uniform)>>
             tr == w.state.transform
         IN  write_snapshot(w, { <<e[1], f(e[2])>> : e \in tr.lines_snapshot },
                               { <<e[1], g(e[2])>> : e \in tr.circles_snapshot })

(***************************************************************************)
(* Rotation.  theta = atan2(v) - atan2(a) for the vectors a (pivot to the  *)
(* pointer at mouse-down) and v (pivot to the pointer now); its cosine and *)
(* sine are a.v and a x v over |a||v|.  The model follows the rotation     *)
(* when theta is a multiple of 45 degrees: then cos and sin are c*u and    *)
(* s*u with c, s in {-1, 0, 1} and u = 1 or 1/sqrt(2).  With Shift the     *)
(* code snaps theta to the nearest multiple of 15 degrees, which leaves    *)
(* such a theta where it is.                                               *)
(***************************************************************************)
Sign(n) == IF n > 0 THEN 1 ELSE IF n < 0 THEN 0 - 1 ELSE 0

\* <<c, s, diagonal>> when theta is a multiple of 45 degrees, else None
rotation_of(a, v) ==
    LET dotp == a[1] * v[1] + a[2] * v[2]
        cross == a[1] * v[2] - a[2] * v[1]
    IN  IF v = <<0, 0>> THEN Some(<<1, 0, FALSE>>)
        ELSE IF cross = 0 \/ dotp = 0 THEN Some(<<Sign(dotp), Sign(cross), FALSE>>)
        ELSE IF Abs(cross) = Abs(dotp) THEN Some(<<Sign(dotp), Sign(cross), TRUE>>)
        ELSE None

\* floor(k * sqrt(2))
floor_sqrt2(k) ==
    IF k >= 0 THEN isqrt(2 * k * k) ELSE 0 - isqrt(2 * k * k) - 1

\* int(round(c + k * u)) for the doubled centre c2 and the doubled offset k;
\* k * sqrt(2) is no integer unless k = 0, so no half arises on a diagonal
rotate_coord_i(c2, k, diagonal) ==
    IF ~diagonal \/ k = 0 THEN round_half_even(c2 + (IF diagonal THEN 0 ELSE k), 2)
    ELSE (2 * c2 + floor_sqrt2(k) + 2) \div 4

rotate_point_i(px, py, c2, rot) ==
    LET dx == 2 * px - c2[1]
        dy == 2 * py - c2[2]
    IN  <<rotate_coord_i(c2[1], rot[1] * dx - rot[2] * dy, rot[3]),
          rotate_coord_i(c2[2], rot[2] * dx + rot[1] * dy, rot[3])>>

pointer_vector(w, cpos) ==
    <<2 * cpos[1] - w.stt.pivot[1][1], 2 * cpos[2] - w.stt.pivot[1][2]>>

apply_rotate(w, cpos) ==
    IF w.stt.mode # "rotating" \/ w.stt.pivot = None THEN w
    ELSE LET pv == w.stt.pivot[1]
             rot == rotation_of(w.stt.anchor_angle, pointer_vector(w, cpos))[1]
             f(c) == rotate_point_i(c[1], c[2], pv, rot) \o rotate_point_i(c[3], c[4], pv, rot)
             g(c) == rotate_point_i(c[1], c[2], pv, rot) \o <<c[3]>>
             tr == w.state.transform
         IN  write_snapshot(w, { <<e[1], f(e[2])>> : e \in tr.lines_snapshot },
                               { <<e[1], g(e[2])>> : e \in tr.circles_snapshot })

\* an input event: its type, the canvas position of the pointer (None for
\* an event without one or with one in the sidebar), the modifier keys
\* pygame.key.get_mods() reports while it is handled, whether the pointer is
\* in the sidebar, the label of the sidebar button a left click lands on,
\* and the key of a KEYDOWN
Event(type, cpos, shift, alt) ==
    [cpos |-> cpos, alt |-> alt, type |-> type, shift |-> shift,
     sidebar |-> FALSE, button |-> "", key |-> ""]

\* a slip: the finished rubber band adds what it picked to the selection
\* that was there before
finish_selection_extends(w) ==
    LET sel == w.state.selection
        rect == rect_from_points(sel.anchor[1], sel.current[1])
        L == rect.left
        T == rect.top
        R == rect.left + rect.width
        B == rect.top + rect.height
        inside(p) == L <= p.x /\ p.x <= R /\ T <= p.y /\ p.y <= B
        ls == w.scene.lines
        cs == w.scene.circles
        picked == IF sel.anchor # None /\ sel.current # None
                  THEN [sel EXCEPT
                          !.selected_lines = sel.selected_lines \cup
                              { i \in 0 .. Len(ls) - 1 : inside(ls[i + 1].p0) \/ inside(ls[i + 1].p1) },
                          !.selected_circles = sel.selected_circles \cup
                              { i \in 0 .. Len(cs) - 1 : inside(cs[i + 1].c) }]
                  ELSE sel
    IN  [w EXCEPT !.state.selection =
                      [picked EXCEPT !.selecting = FALSE, !.anchor = None, !.current = None],
                  !.stt.mode = "None"]

\* the rubber band a..b replaces the selection by the lines with an endpoint
\* in the closed rectangle and the circles with their centre in it
finish_selection(w) ==
    LET sel == w.state.selection
        rect == rect_from_points(sel.anchor[1], sel.current[1])
        L == rect.left
        T == rect.top
        R == rect.left + rect.width
        B == rect.top + rect.height
        inside(p) == L <= p.x /\ p.x <= R /\ T <= p.y /\ p.y <= B
        ls == w.scene.lines
        cs == w.scene.circles
        picked == IF sel.anchor # None /\ sel.current # None
                  THEN [sel EXCEPT
                          !.selected_lines =
                              { i \in 0 .. Len(ls) - 1 : inside(ls[i + 1].p0) \/ inside(ls[i + 1].p1) },
                          !.selected_circles =
                              { i \in 0 .. Len(cs) - 1 : inside(cs[i + 1].c) }]
                  ELSE sel
    IN  [w EXCEPT !.state.selection =
                      [picked EXCEPT !.selecting = FALSE, !.anchor = None, !.current = None],
                  !.stt.mode = "None"]

finish_transform(w) ==
    [w EXCEPT !.state.transform = InitTransform, !.stt = InitSelectTool]

\* a slip: a press inside the rubber-band area begins a move whenever the
\* selection sets are not empty, without a look at the bounding box
select_mouse_down_no_bbox(w, ev) ==
    LET sel == w.state.selection
    IN  IF sel.selected_lines # {} \/ sel.selected_circles # {}
        THEN begin_move(w, ev.cpos[1])
        ELSE [w EXCEPT !.state.selection.selecting = TRUE,
                       !.state.selection.anchor = ev.cpos,
                       !.state.selection.current = ev.cpos,
                       !.stt.mode = "selecting"]

select_mouse_down(w, ev) ==
    LET sel == w.state.selection
        cpos == ev.cpos[1]
        bx == selection_bbox(w.scene, w.state)
        h == IF bbox_bool(bx) THEN hit_test_handle(bx[1], cpos) ELSE None
    IN  IF h # None /\ h # Some("rot") THEN begin_scale(w, h[1], cpos, ev.alt)
        ELSE IF h = Some("rot") THEN begin_rotate(w, cpos)
        ELSE IF /\ bbox_bool(bx)
                /\ collidepoint(bx[1], cpos[1], cpos[2])
                /\ (sel.selected_lines # {} \/ sel.selected_circles # {})
             THEN begin_move(w, cpos)
        ELSE [w EXCEPT !.state.selection.selecting = TRUE,
                       !.state.selection.anchor = Some(cpos),
                       !.state.selection.current = Some(cpos),
                       !.stt.mode = "selecting"]

select_mouse_motion(w, ev) ==
    LET sel == w.state.selection
    IN  IF ev.cpos # None /\ sel.selecting /\ sel.anchor # None
        THEN [w EXCEPT !.state.selection.current = ev.cpos]
        ELSE IF ev.cpos # None /\ w.stt.mode = "moving" THEN apply_move(w, ev.cpos[1])
        ELSE IF ev.cpos # None /\ w.stt.mode = "scaling" THEN apply_scale(w, ev.cpos[1], ev.shift)
        ELSE IF ev.cpos # None /\ w.stt.mode = "rotating" THEN apply_rotate(w, ev.cpos[1])
        ELSE w

select_mouse_up(w, ev) ==
    LET w1 == IF w.state.selection.selecting THEN finish_selection(w) ELSE w
    IN  IF w1.state.transform.dragging \/ w1.stt.mode \in {"moving", "scaling", "rotating"}
        THEN finish_transform(w1)
        ELSE w1

select_handle_canvas_event(w, ev) ==
    IF ev.type = "MOUSEBUTTONDOWN" /\ ev.cpos # None THEN select_mouse_down(w, ev)
    ELSE IF ev.type = "MOUSEMOTION" THEN select_mouse_motion(w, ev)
    ELSE IF ev.type = "MOUSEBUTTONUP" THEN select_mouse_up(w, ev)
    ELSE w

\* SelectTransformTool.exit
select_exit(w) ==
    [w EXCEPT !.state.selection.selecting = FALSE,
              !.state.transform = InitTransform,
              !.stt = InitSelectTool]

(***************************************************************************)
(* Where the exact arithmetic of the model and the floating point of the   *)
(* program part.  A rounded value that is an exact half is rounded to the  *)
(* even neighbour by round(); the program reaches the half exactly when    *)
(* the scale factor is a dyadic fraction, and may miss it by a rounding    *)
(* error otherwise (3/94 * 47 is 1.4999999999999998).  A value that is no  *)
(* half is further from one than any rounding error.  The model follows an *)
(* update when every half it rounds is one the program computes exactly.   *)
(***************************************************************************)
RECURSIVE gcd(_, _)
gcd(a, b) == IF b = 0 THEN a ELSE gcd(b, a % b)

RECURSIVE is_pow2(_)
is_pow2(n) == n = 1 \/ (n > 1 /\ n % 2 = 0 /\ is_pow2(n \div 2))

dyadic(s) == is_pow2(Abs(s[2]) \div gcd(Abs(s[1]), Abs(s[2])))

is_half(num, den) == (2 * num) % Abs(den) = 0 /\ num % Abs(den) # 0

scale_coord_exact(p, c2, s) ==
    is_half(c2 * s[2] + s[1] * (2 * p - c2), 2 * s[2]) => dyadic(s)

scale_modelled(w, cpos, uniform) ==
    LET h0 == IF w.stt.h0 # None THEN w.stt.h0[1] ELSE cpos
        pv == w.stt.pivot[1]
        s == scale_factors(w.stt.handle[1], h0, pv, cpos, uniform)
        sr == IF uniform \/ FracAbsGeq(s[1], s[2]) THEN s[1] ELSE s[2]
    IN  /\ \A e \in w.state.transform.lines_snapshot :
              /\ scale_coord_exact(e[2][1], pv[1], s[1]) /\ scale_coord_exact(e[2][2], pv[2], s[2])
              /\ scale_coord_exact(e[2][3], pv[1], s[1]) /\ scale_coord_exact(e[2][4], pv[2], s[2])
        /\ \A e \in w.state.transform.circles_snapshot :
              /\ scale_coord_exact(e[2][1], pv[1], s[1]) /\ scale_coord_exact(e[2][2], pv[2], s[2])
              /\ (is_half(e[2][3] * sr[1], sr[2]) => dyadic(sr))

\* a rotation is followed for multiples of 45 degrees; a turn by 0 or 180
\* degrees rounds no half, any other rounds none unless the point lies so
\* that its image has a half coordinate
rotate_point_exact(px, py, c2, rot) ==
    LET dx == 2 * px - c2[1]
        dy == 2 * py - c2[2]
        kx == rot[1] * dx - rot[2] * dy
        ky == rot[2] * dx + rot[1] * dy
    IN  IF rot[3] THEN (kx = 0 => c2[1] % 2 = 0) /\ (ky = 0 => c2[2] % 2 = 0)
        ELSE (c2[1] + kx) % 2 = 0 /\ (c2[2] + ky) % 2 = 0

rotate_modelled(w, cpos) ==
    LET r == rotation_of(w.stt.anchor_angle, pointer_vector(w, cpos))
        pv == w.stt.pivot[1]
    IN  /\ r # None
        /\ \A e \in w.state.transform.lines_snapshot :
              /\ rotate_point_exact(e[2][1], e[2][2], pv, r[1])
              /\ rotate_point_exact(e[2][3], e[2][4], pv, r[1])
        /\ \A e \in w.state.transform.circles_snapshot :
              rotate_point_exact(e[2][1], e[2][2], pv, r[1])

\* the event is one whose effect the model computes
select_event_modelled(w, ev) ==
    (/\ ev.type = "MOUSEMOTION" /\ ev.cpos # None
     /\ ~(w.state.selection.selecting /\ w.state.selection.anchor # None))
        => /\ (w.stt.mode = "scaling" /\ w.stt.handle # None /\ w.stt.bbox0 # None
                  /\ w.stt.pivot # None)
               => scale_modelled(w, ev.cpos[1], ev.shift)
           /\ (w.stt.mode = "rotating" /\ w.stt.pivot # None)
               => rotate_modelled(w, ev.cpos[1])

(***************************************************************************)
(* The world after main() has built the state, the scene, the dispatcher   *)
(* and the tools.                                                          *)
(***************************************************************************)
InitWorld ==
    [scene |-> InitScene, state |-> InitState, stt |-> InitSelectTool,
     cwt |-> InitClipTool, last_mode |-> "IDLE", run |-> "running"]

World ==
    [scene |-> scene, state |-> state, stt |-> stt, cwt |-> cwt,
     last_mode |-> last_mode, run |-> run]

NoEvent == Event("NONE", None, FALSE, FALSE)

AppConstructed ==
    /\ scene = InitWorld.scene
    /\ state = InitWorld.state
    /\ stt = InitWorld.stt
    /\ cwt = InitWorld.cwt
    /\ last_mode = InitWorld.last_mode
    /\ run = InitWorld.run
    /\ last = NoEvent
    /\ clicks = 0
    /\ switches = 0
    /\ moves = 0

\* the handler's result w becomes the next state; ev is what the history
\* keeps of the input handled
Becomes(w, ev) ==
    /\ scene' = w.scene
    /\ state' = w.state
    /\ stt' = w.stt
    /\ cwt' = w.cwt
    /\ last_mode' = w.last_mode
    /\ run' = w.run
    /\ last' = ev

(***************************************************************************)
(* tools/line.py, tools/circle.py                                          *)
(***************************************************************************)
\* a slip: the new line is put at the head of scene.lines
line_handle_prepends(w, ev, algo) ==
    IF ev.type = "MOUSEBUTTONDOWN" /\ ev.cpos # None
    THEN IF w.state.pending_line_start = None
         THEN [w EXCEPT !.state.pending_line_start = ev.cpos]
         ELSE LET s == w.state.pending_line_start[1]
              IN  [w EXCEPT !.scene.lines =
                                <<Line(Point(s[1], s[2]),
                                       Point(ev.cpos[1][1], ev.cpos[1][2]), algo)>> \o @,
                            !.state.pending_line_start = None]
    ELSE w

line_handle_canvas_event(w, ev, algo) ==
    IF ev.type = "MOUSEBUTTONDOWN" /\ ev.cpos # None
    THEN IF w.state.pending_line_start = None
         THEN [w EXCEPT !.state.pending_line_start = ev.cpos]
         ELSE LET s == w.state.pending_line_start[1]
              IN  [w EXCEPT !.scene.lines =
                                Append(@, Line(Point(s[1], s[2]),
                                               Point(ev.cpos[1][1], ev.cpos[1][2]), algo)),
                            !.state.pending_line_start = None]
    ELSE w

circle_handle_canvas_event(w, ev) ==
    IF ev.type = "MOUSEBUTTONDOWN" /\ ev.cpos # None
    THEN IF w.state.pending_circle_center = None
         THEN [w EXCEPT !.state.pending_circle_center = ev.cpos]
         ELSE LET c == w.state.pending_circle_center[1]
                  r == Max(0, round_hypot(ev.cpos[1][1] - c[1], ev.cpos[1][2] - c[2]))
              IN  [w EXCEPT !.scene.circles = Append(@, Circle(Point(c[1], c[2]), r)),
                            !.state.pending_circle_center = None]
    ELSE w

(***************************************************************************)
(* utils/geom.py, render/renderer.py, tools/clip_window.py                 *)
(***************************************************************************)
\* a slip: the size is clamped, the position is not
clamp_rect_size_only(rect, width, height) ==
    Rect4(rect.left, rect.top, Min(Max(0, rect.width), width), Min(Max(0, rect.height), height))

clamp_rect_to_canvas(rect, width, height) ==
    LET cw == Min(Max(0, rect.width), width)
        ch == Min(Max(0, rect.height), height)
    IN  Rect4(Max(0, Min(rect.left, width - cw)), Max(0, Min(rect.top, height - ch)), cw, ch)

\* an uncaught exception ends the main loop
raise(w, exception) == [w EXCEPT !.run = exception]

\* redraw_canvas_from_scene(canvas, scene, state) writes pixels only, but it
\* reads state.clip.preview_algo once state.clip.window is set
redraw_with_state(w) ==
    IF w.state.clip.window # None /\ w.state.clip.preview_algo = "absent"
    THEN raise(w, "AttributeError")
    ELSE w

hit_test_clip_handle(bbox, mouse) ==
    first_square_hit(bbox_handles(bbox, ROT_HANDLE_OFFSET), mouse[1], mouse[2], 1)

clip_mouse_down(w, ev) ==
    LET cpos == ev.cpos[1]
        win == w.state.clip.window
        hkey == IF win # None THEN hit_test_clip_handle(win[1], cpos) ELSE None
    IN  IF hkey # None
        THEN [w EXCEPT !.cwt.mode = "resizing", !.cwt.handle = hkey, !.cwt.rect0 = win,
                       !.cwt.keep_aspect = ev.shift, !.cwt.from_center = ev.alt]
        ELSE IF win # None /\ collidepoint(win[1], cpos[1], cpos[2])
        THEN [w EXCEPT !.cwt.mode = "moving", !.cwt.anchor = Some(cpos), !.cwt.rect0 = win]
        ELSE [w EXCEPT !.state.clip.setting = TRUE, !.cwt.mode = "creating",
                       !.state.clip.anchor = Some(cpos), !.state.clip.current = Some(cpos)]

clip_mouse_motion(w, ev) ==
    IF w.cwt.mode = "moving" /\ ev.cpos # None /\ w.cwt.anchor # None /\ w.cwt.rect0 # None
    THEN LET dx == ev.cpos[1][1] - w.cwt.anchor[1][1]
             dy == ev.cpos[1][2] - w.cwt.anchor[1][2]
             r0 == w.cwt.rect0[1]
             moved == Rect4(r0.left + dx, r0.top + dy, r0.width, r0.height)
         IN  redraw_with_state(
                 [w EXCEPT !.state.clip.window =
                               Some(clamp_rect_to_canvas(moved, CANVAS_W, CANVAS_H))])
    ELSE IF w.cwt.mode = "resizing" /\ ev.cpos # None /\ w.cwt.rect0 # None /\ w.cwt.handle # None
    THEN \* the arguments min_w=C.CLIP_MIN_W, min_h=C.CLIP_MIN_H name constants
         \* config.py does not define
         raise(w, "AttributeError")
    ELSE IF ev.cpos # None /\ w.state.clip.setting /\ w.cwt.mode = "creating"
    THEN [w EXCEPT !.state.clip.current = ev.cpos]
    ELSE w

clip_mouse_up(w, ev) ==
    LET cl == w.state.clip
    IN  IF w.cwt.mode = "moving"
        THEN [w EXCEPT !.cwt.mode = "None", !.cwt.anchor = None, !.cwt.rect0 = None]
        ELSE IF w.cwt.mode = "resizing"
        THEN [w EXCEPT !.cwt.mode = "None", !.cwt.rect0 = None, !.cwt.handle = None,
                       !.cwt.keep_aspect = FALSE, !.cwt.from_center = FALSE]
        ELSE IF cl.setting /\ cl.anchor # None /\ cl.current # None
        THEN LET a == cl.anchor[1]
                 b == cl.current[1]
                 made == Rect4(Min(a[1], b[1]), Min(a[2], b[2]),
                               Max(1, Abs(b[1] - a[1])), Max(1, Abs(b[2] - a[2])))
             IN  [w EXCEPT !.state.clip.setting = FALSE,
                           !.state.clip.window =
                               Some(clamp_rect_to_canvas(made, CANVAS_W, CANVAS_H)),
                           !.state.clip.anchor = None,
                           !.state.clip.current = None,
                           !.cwt.mode = "None"]
        ELSE w

\* the KEYDOWN branch of the tool (Delete, Backspace, arrows) is not here:
\* the main loop of app.py handles every KEYDOWN itself and hands none to
\* the dispatcher
clip_handle_canvas_event(w, ev) ==
    IF w.state.mode # "CLIP_WINDOW" THEN w
    ELSE IF ev.type = "MOUSEMOTION" THEN clip_mouse_motion(w, ev)
    ELSE IF ev.type = "MOUSEBUTTONDOWN" /\ ev.cpos # None THEN clip_mouse_down(w, ev)
    ELSE IF ev.type = "MOUSEBUTTONUP" THEN clip_mouse_up(w, ev)
    ELSE w

(***************************************************************************)
(* events/dispatcher.py, ui/sidebar.py and the callbacks app.py wires      *)
(***************************************************************************)
tool_exit(w, mode) ==
    IF mode = "SELECT" THEN select_exit(w)
    ELSE IF mode \in {"LINE_DDA", "LINE_BRESENHAM"} THEN [w EXCEPT !.state.pending_line_start = None]
    ELSE IF mode = "CIRCLE_BRESENHAM" THEN [w EXCEPT !.state.pending_circle_center = None]
    ELSE IF mode = "CLIP_WINDOW" THEN [w EXCEPT !.cwt = InitClipTool]
    ELSE w

\* only ClipWindowTool.enter writes more than the status and the cursor
tool_enter(w, mode) ==
    IF mode = "CLIP_WINDOW" THEN [w EXCEPT !.cwt = InitClipTool] ELSE w

maybe_switch_tool(w) ==
    IF w.state.mode = w.last_mode THEN w
    ELSE [tool_enter(tool_exit(w, w.last_mode), w.state.mode) EXCEPT !.last_mode = w.state.mode]

ButtonLabels ==
    {"Select", "Line (DDA)", "Line (Bresenham)", "Circle (Bresenham)", "Set Clip Window",
     "Preview: Cohen-Suth.", "Preview: Liang-Barsky", "Clear Canvas"}

set_mode(w, mode) == [w EXCEPT !.state.mode = mode]

preview_clip(w, algo) ==
    redraw_with_state([w EXCEPT !.state.mode = "CLIP_WINDOW", !.state.clip.preview_algo = algo])

\* scene.clear(), state.reset_all() (which leaves clip.preview_algo as it
\* is), mode IDLE
clear_all(w) ==
    [w EXCEPT !.scene = InitScene,
              !.state = [InitState EXCEPT !.clip.preview_algo = w.state.clip.preview_algo]]

button_click(w, label) ==
    IF label = "Select" THEN set_mode(w, "SELECT")
    ELSE IF label = "Line (DDA)" THEN set_mode(w, "LINE_DDA")
    ELSE IF label = "Line (Bresenham)" THEN set_mode(w, "LINE_BRESENHAM")
    ELSE IF label = "Circle (Bresenham)" THEN set_mode(w, "CIRCLE_BRESENHAM")
    ELSE IF label = "Set Clip Window" THEN set_mode(w, "CLIP_WINDOW")
    ELSE IF label = "Preview: Cohen-Suth." THEN preview_clip(w, "CS")
    ELSE IF label = "Preview: Liang-Barsky" THEN preview_clip(w, "LB")
    ELSE IF label = "Clear Canvas" THEN clear_all(w)
    ELSE w

\* Sidebar.handle_event: a left MOUSEBUTTONDOWN on a button calls its
\* callback; anything else changes hover flags at most
sidebar_handle_event(w, ev) ==
    IF ev.type = "MOUSEBUTTONDOWN" /\ ev.button \in ButtonLabels
    THEN button_click(w, ev.button)
    ELSE w

tool_handle_canvas_event(w, ev) ==
    IF w.state.mode = "SELECT" THEN select_handle_canvas_event(w, ev)
    ELSE IF w.state.mode = "LINE_DDA" THEN line_handle_canvas_event(w, ev, "DDA")
    ELSE IF w.state.mode = "LINE_BRESENHAM" THEN line_handle_canvas_event(w, ev, "BRESENHAM")
    ELSE IF w.state.mode = "CIRCLE_BRESENHAM" THEN circle_handle_canvas_event(w, ev)
    ELSE IF w.state.mode = "CLIP_WINDOW" THEN clip_handle_canvas_event(w, ev)
    ELSE w

\* EventDispatcher.handle
dispatcher_handle(w, ev) ==
    LET w1 == maybe_switch_tool(w)
    IN  IF ev.sidebar THEN sidebar_handle_event(w1, ev)
        ELSE tool_handle_canvas_event(w1, ev)

(***************************************************************************)
(* app.py: the keyboard shortcuts of the main loop                         *)
(***************************************************************************)
\* Enter: apply the preview destructively
key_return(w) ==
    LET cl == w.state.clip
    IN  IF cl.window = None THEN w
        ELSE IF cl.preview_algo = "absent" THEN raise(w, "AttributeError")
        ELSE IF cl.preview_algo = "None" THEN w
        ELSE LET sl == w.state.selection.selected_lines
                 target == IF sl = {} THEN NoneSelected ELSE Selected(sl)
                 r == apply_clipping_to_lines(w.scene.lines, cl.window[1], cl.preview_algo, target)
             IN  redraw_with_state([w EXCEPT !.scene.lines = r.lines,
                                             !.state.clip.preview_algo = "None"])

\* 0: preview off
key_0(w) ==
    IF w.state.clip.preview_algo = "absent" THEN raise(w, "AttributeError")
    ELSE IF w.state.clip.preview_algo = "None" THEN w
    ELSE redraw_with_state([w EXCEPT !.state.clip.preview_algo = "None"])

key_down(w, key) ==
    IF key = "ESCAPE" THEN [w EXCEPT !.run = "quit"]
    ELSE IF key = "v" THEN set_mode(w, "SELECT")
    ELSE IF key = "1" THEN preview_clip(w, "CS")
    ELSE IF key = "2" THEN preview_clip(w, "LB")
    ELSE IF key = "RETURN" THEN key_return(w)
    ELSE IF key = "0" THEN key_0(w)
    ELSE w

\* the body of `for ev in pygame.event.get()`
main_loop_event(w, ev) ==
    IF ev.type = "QUIT" THEN [w EXCEPT !.run = "quit"]
    ELSE IF ev.type = "KEYDOWN" THEN key_down(w, ev.key)
    ELSE dispatcher_handle(w, ev)

(***************************************************************************)
(* ui/overlay.py: draw_overlay, once a frame.  It draws, and on the way it *)
(* cleans the selection sets and then subscripts scene.lines and           *)
(* scene.circles with what is left of them.                                *)
(***************************************************************************)
\* a slip: the selection is drawn as it stands
sanitize_selection_skipped(w) == w

sanitize_selection(w) ==
    [w EXCEPT !.state.selection.selected_lines =
                  { i \in @ : 0 <= i /\ i < Len(w.scene.lines) },
              !.state.selection.selected_circles =
                  { i \in @ : 0 <= i /\ i < Len(w.scene.circles) }]

\* `scene.lines[i]` for every i of selected_lines, and likewise the circles
highlight_selection(w) ==
    IF \/ \E i \in w.state.selection.selected_lines : i >= Len(w.scene.lines)
       \/ \E i \in w.state.selection.selected_circles : i >= Len(w.scene.circles)
    THEN raise(w, "IndexError")
    ELSE w

draw_overlay(w) == highlight_selection(sanitize_selection(w))

(***************************************************************************)
(* The inputs of the main loop.                                            *)
(***************************************************************************)
SidebarEvent(type, label) ==
    [cpos |-> None, alt |-> FALSE, type |-> type, shift |-> FALSE,
     sidebar |-> TRUE, button |-> label, key |-> ""]

KeyDown(key) ==
    [cpos |-> None, alt |-> FALSE, type |-> "KEYDOWN", shift |-> FALSE,
     sidebar |-> FALSE, button |-> "", key |-> key]

Quit == Event("QUIT", None, FALSE, FALSE)

\* the model computes the effect of ev on w
event_modelled(w, ev) ==
    LET w1 == maybe_switch_tool(w)
    IN  (ev.type \notin {"QUIT", "KEYDOWN"} /\ ~ev.sidebar /\ w1.state.mode = "SELECT")
            => select_event_modelled(w1, ev)

(***************************************************************************)
(* utils/geom.py: resize_rect_from_handle.  Its floats are the fractions   *)
(* <<n, d>> with d > 0 here; every value it computes from integers is a    *)
(* quotient of small integers.                                             *)
(***************************************************************************)
QInt(n) == <<n, 1>>
QAdd(a, b) == <<a[1] * b[2] + b[1] * a[2], a[2] * b[2]>>
QSub(a, b) == <<a[1] * b[2] - b[1] * a[2], a[2] * b[2]>>
QAbs(a) == <<Abs(a[1]), a[2]>>
QMax(a, b) == IF FracLess(a, b) THEN b ELSE a
QMin(a, b) == IF FracLess(b, a) THEN b ELSE a
QRound(a) == round_half_even(a[1], a[2])

\* math.copysign(m, v if v != 0 else 1.0) for m >= 0
copysign_of(m, v) == IF v[1] < 0 THEN <<0 - m[1], m[2]>> ELSE m

CornerHandles == {"nw", "ne", "se", "sw"}
ResizeHandles == {"nw", "n", "ne", "e", "se", "s", "sw", "w"}

opposite_corner_for(handle, l0, t0, r0, b0) ==
    IF handle = "se" THEN <<l0, t0>>
    ELSE IF handle = "ne" THEN <<l0, b0>>
    ELSE IF handle = "sw" THEN <<r0, t0>>
    ELSE IF handle = "nw" THEN <<r0, b0>>
    ELSE <<l0, t0>>

\* the edges <<l, t, r, b>> as fractions to the integers <<L, T, R, B>>
normalize_edges(e) ==
    <<QRound(QMin(e[1], e[3])), QRound(QMin(e[2], e[4])),
      QRound(QMax(e[1], e[3])), QRound(QMax(e[2], e[4]))>>

\* the aspect lock of a corner drag: aspect = w0 / h0, and abs(vx) / aspect
\* is abs(vx) * h0 / w0
aspect_lock(v, w0, h0) ==
    LET ax == QAbs(v[1])
        ay == QAbs(v[2])
        vy_of_vx == <<ax[1] * h0, ax[2] * w0>>
        vx_of_vy == <<ay[1] * w0, ay[2] * h0>>
    IN  IF ~FracLess(vy_of_vx, ay)
        THEN <<v[1], copysign_of(vy_of_vx, v[2])>>
        ELSE <<copysign_of(vx_of_vy, v[1]), v[2]>>

\* the minimum of a corner drag about the opposite corner
min_from_pivot(v, min_w, min_h) ==
    <<IF FracLess(QAbs(v[1]), QInt(min_w)) THEN copysign_of(QInt(min_w), v[1]) ELSE v[1],
      IF FracLess(QAbs(v[2]), QInt(min_h)) THEN copysign_of(QInt(min_h), v[2]) ELSE v[2]>>

\* the edges of a corner drag
corner_edges(rect0, handle, mouse, keep_aspect, from_center, min_w, min_h) ==
    LET l0 == rect0.left
        t0 == rect0.top
        r0 == l0 + rect0.width
        b0 == t0 + rect0.height
        c == <<<<l0 + r0, 2>>, <<t0 + b0, 2>>>>
        p == opposite_corner_for(handle, l0, t0, r0, b0)
        pv == IF from_center THEN c ELSE <<QInt(p[1]), QInt(p[2])>>
        v0 == <<QSub(QInt(mouse[1]), pv[1]), QSub(QInt(mouse[2]), pv[2])>>
        v == IF keep_aspect /\ rect0.height # 0
             THEN aspect_lock(v0, rect0.width, rect0.height) ELSE v0
    IN  IF from_center
        THEN LET half_w == QMax(<<min_w, 2>>, QAbs(v[1]))
                 half_h == QMax(<<min_h, 2>>, QAbs(v[2]))
             IN  <<QSub(c[1], half_w), QSub(c[2], half_h), QAdd(c[1], half_w), QAdd(c[2], half_h)>>
        ELSE LET u == min_from_pivot(v, min_w, min_h)
             IN  <<QMin(pv[1], QAdd(pv[1], u[1])), QMin(pv[2], QAdd(pv[2], u[2])),
                   QMax(pv[1], QAdd(pv[1], u[1])), QMax(pv[2], QAdd(pv[2], u[2]))>>

\* the two edges <<lo, hi>> an edge handle moves along one axis: lo0 and hi0
\* are the old edges, m the mouse coordinate, low whether the handle is the
\* one of the low edge ("w" or "n")
edge_pair(lo0, hi0, m, low, from_center, min_size) ==
    IF from_center
    THEN LET half == QMax(<<min_size, 2>>, QAbs(<<2 * m - (lo0 + hi0), 2>>))
         IN  <<QSub(<<lo0 + hi0, 2>>, half), QAdd(<<lo0 + hi0, 2>>, half)>>
    ELSE IF ~low
    THEN <<QInt(lo0), QInt(IF m - lo0 < min_size THEN lo0 + min_size ELSE m)>>
    ELSE <<QInt(IF hi0 - m < min_size THEN hi0 - min_size ELSE m), QInt(hi0)>>

resize_edges(rect0, handle, mouse, keep_aspect, from_center, min_w, min_h) ==
    LET l0 == rect0.left
        t0 == rect0.top
        r0 == l0 + rect0.width
        b0 == t0 + rect0.height
    IN  IF handle \in CornerHandles
        THEN corner_edges(rect0, handle, mouse, keep_aspect, from_center, min_w, min_h)
        ELSE IF handle \in {"e", "w"}
        THEN LET x == edge_pair(l0, r0, mouse[1], handle = "w", from_center, min_w)
             IN  <<x[1], QInt(t0), x[2], QInt(b0)>>
        ELSE IF handle \in {"n", "s"}
        THEN LET y == edge_pair(t0, b0, mouse[2], handle = "n", from_center, min_h)
             IN  <<QInt(l0), y[1], QInt(r0), y[2]>>
        ELSE <<QInt(l0), QInt(t0), QInt(r0), QInt(b0)>>

\* abs(vx) / aspect divides by 0.0 when w0 = 0 and h0 # 0
resize_divides_by_zero(rect0, handle, keep_aspect) ==
    handle \in CornerHandles /\ keep_aspect /\ rect0.height # 0 /\ rect0.width = 0

Returned(rect) == [raised |-> "None", rect |-> rect]
Raised(exception) == [raised |-> exception, rect |-> Rect4(0, 0, 0, 0)]

\* the rect returned, or the exception raised; bounds is None or Some(<<W, H>>)
resize_rect_from_handle(rect0, handle, mouse, keep_aspect, from_center, min_w, min_h, bounds) ==
    IF resize_divides_by_zero(rect0, handle, keep_aspect) THEN Raised("ZeroDivisionError")
    ELSE LET e == normalize_edges(
                      resize_edges(rect0, handle, mouse, keep_aspect, from_center, min_w, min_h))
             made == Rect4(e[1], e[2], e[3] - e[1], e[4] - e[2])
         IN  IF bounds # None
             THEN Returned(clamp_rect_to_canvas(made, bounds[1][1], bounds[1][2]))
             ELSE Returned(made)

(***************************************************************************)
(* utils/transforms.py: rotate_point_i on its own, for the multiples of 45 *)
(* degrees.  The floats cos(theta) and sin(theta) are not exact there      *)
(* (cos(pi/2) is 6.1e-17, cos(pi/4) and sin(pi/4) differ in the last       *)
(* bit), so a coordinate whose exact value is a half may round to either   *)
(* neighbour: the outcomes are a set.                                      *)
(***************************************************************************)
\* a slip: int() in place of int(round()), the fraction is cut off
rotate_coord_truncated(c2, k, diagonal) ==
    IF ~diagonal THEN {int_half(c2 + k)}
    ELSE IF k = 0 THEN {int_half(c2)}
    ELSE {IF 2 * c2 + floor_sqrt2(k) >= 0 THEN (2 * c2 + floor_sqrt2(k)) \div 4
          ELSE (2 * c2 + floor_sqrt2(k)) \div 4 + 1}

\* int(round(c + k * u)) for the doubled centre c2 and the doubled offset k
rotate_coord_outcomes(c2, k, diagonal) ==
    IF ~diagonal
    THEN IF (c2 + k) % 2 = 0 THEN {(c2 + k) \div 2}
         ELSE {(c2 + k) \div 2, (c2 + k) \div 2 + 1}
    ELSE IF k = 0
    THEN IF c2 % 2 = 0 THEN {c2 \div 2} ELSE {c2 \div 2, c2 \div 2 + 1}
    ELSE {(2 * c2 + floor_sqrt2(k) + 2) \div 4}

rotate_point_outcomes(px, py, c2, rot) ==
    LET dx == 2 * px - c2[1]
        dy == 2 * py - c2[2]
    IN  rotate_coord_outcomes(c2[1], rot[1] * dx - rot[2] * dy, rot[3])
        \X rotate_coord_outcomes(c2[2], rot[2] * dx + rot[1] * dy, rot[3])

\* Circle.bbox of scene/models.py
circle_bbox(c) == Rect4(c.c.x - c.r, c.c.y - c.r, 2 * c.r, 2 * c.r)

(***************************************************************************)
(* The divisions of the two clippers: the divisors each run divides by, in *)
(* the order of the divisions.                                             *)
(***************************************************************************)
\* the divisor of one pass of the body of `while True`, none when the
\* conditional expression takes its else branch
cs_divisor_once(x0, y0, x1, y1, rect) ==
    LET code0 == code(x0, y0, rect)
        code1 == code(x1, y1, rect)
        code_out == IF code0 # 0 THEN code0 ELSE code1
    IN  IF HasBit(code_out, TOP) \/ HasBit(code_out, BOTTOM)
        THEN IF y1 # y0 THEN <<y1 - y0>> ELSE <<>>
        ELSE IF x1 # x0 THEN <<x1 - x0>> ELSE <<>>

RECURSIVE cs_divisors(_, _, _, _, _, _)
cs_divisors(x0, y0, x1, y1, rect, fuel) ==
    LET code0 == code(x0, y0, rect)
        code1 == code(x1, y1, rect)
    IN  IF code0 = INSIDE /\ code1 = INSIDE THEN <<>>
        ELSE IF CodesMeet(code0, code1) THEN <<>>
        ELSE IF fuel = 0 THEN <<>>
        ELSE LET n == cs_clip_once(x0, y0, x1, y1, rect)
             IN  cs_divisor_once(x0, y0, x1, y1, rect)
                 \o cs_divisors(n[1], n[2], n[3], n[4], rect, fuel - 1)

\* a slip: the test for a segment parallel to the boundary is left out
lb_divisor_unguarded(st, pi, qi) ==
    IF st.rejected THEN <<>> ELSE <<pi>>

\* the divisor of one pass of `for pi, qi in zip(p, q)`: r = qi / pi is
\* reached when the loop has not returned and pi # 0
lb_divisor(st, pi, qi) ==
    IF st.rejected THEN <<>>
    ELSE IF pi = 0 THEN <<>>
    ELSE <<pi>>

lb_divisors(p0, p1, rect) ==
    LET e == edges(rect)
        x0 == p0.x
        y0 == p0.y
        dx == p1.x - p0.x
        dy == p1.y - p0.y
        p == <<0 - dx, dx, 0 - dy, dy>>
        q == <<x0 - e.left, e.right - x0, y0 - e.top, e.bottom - y0>>
        s0 == [u0 |-> <<0, 1>>, u1 |-> <<1, 1>>, rejected |-> FALSE]
        s1 == lb_constraint(s0, p[1], q[1])
        s2 == lb_constraint(s1, p[2], q[2])
        s3 == lb_constraint(s2, p[3], q[3])
    IN  lb_divisor(s0, p[1], q[1]) \o lb_divisor(s1, p[2], q[2])
        \o lb_divisor(s2, p[3], q[3]) \o lb_divisor(s3, p[4], q[4])

(***************************************************************************)
(* cohen_sutherland_clip with the order of its if/elif chain as a          *)
(* parameter: order is a sequence of the four boundary bits, the code has  *)
(* <<TOP, BOTTOM, RIGHT, LEFT>>.                                           *)
(***************************************************************************)
CodeOrder == <<TOP, BOTTOM, RIGHT, LEFT>>

BoundaryOrders ==
    { o \in [1 .. 4 -> {LEFT, RIGHT, BOTTOM, TOP}] : \A i, j \in 1 .. 4 : o[i] = o[j] => i = j }

\* the first boundary of the order that the code of the endpoint has
first_boundary(code_out, order) ==
    order[CHOOSE i \in 1 .. 4 :
              /\ HasBit(code_out, order[i])
              /\ \A j \in 1 .. i - 1 : ~HasBit(code_out, order[j])]

cs_clip_once_in(order, x0, y0, x1, y1, rect) ==
    LET e == edges(rect)
        code0 == code(x0, y0, rect)
        code1 == code(x1, y1, rect)
        code_out == IF code0 # 0 THEN code0 ELSE code1
        side == first_boundary(code_out, order)
        edge_y == IF side = TOP THEN e.top ELSE e.bottom
        edge_x == IF side = RIGHT THEN e.right ELSE e.left
        new ==
            IF side \in {TOP, BOTTOM} THEN
                [x |-> IF y1 # y0
                       THEN round_half_even(x0 * (y1 - y0) + (x1 - x0) * (edge_y - y0), y1 - y0)
                       ELSE x0,
                 y |-> edge_y]
            ELSE
                [x |-> edge_x,
                 y |-> IF x1 # x0
                       THEN round_half_even(y0 * (x1 - x0) + (y1 - y0) * (edge_x - x0), x1 - x0)
                       ELSE y0]
    IN  IF code_out = code0
        THEN <<new.x, new.y, x1, y1>>
        ELSE <<x0, y0, new.x, new.y>>

RECURSIVE cs_loop_in(_, _, _, _, _, _, _)
cs_loop_in(order, x0, y0, x1, y1, rect, fuel) ==
    LET code0 == code(x0, y0, rect)
        code1 == code(x1, y1, rect)
    IN  IF code0 = INSIDE /\ code1 = INSIDE THEN Endpoints(x0, y0, x1, y1)
        ELSE IF CodesMeet(code0, code1) THEN NoneResult
        ELSE IF fuel = 0 THEN Unfinished
        ELSE LET n == cs_clip_once_in(order, x0, y0, x1, y1, rect)
             IN  cs_loop_in(order, n[1], n[2], n[3], n[4], rect, fuel - 1)

cohen_sutherland_clip_in(order, p0, p1, rect) ==
    cs_loop_in(order, p0.x, p0.y, p1.x, p1.y, rect, MaxCSIter)

(***************************************************************************)
(* The passes of the Cohen-Sutherland loop: how often the body of          *)
(* `while True` moves an endpoint before the accept or the reject return;  *)
(* fuel + 1 when the loop has not returned after fuel passes.              *)
(***************************************************************************)
RECURSIVE cs_passes(_, _, _, _, _, _)
cs_passes(x0, y0, x1, y1, rect, fuel) ==
    LET code0 == code(x0, y0, rect)
        code1 == code(x1, y1, rect)
    IN  IF code0 = INSIDE /\ code1 = INSIDE THEN 0
        ELSE IF CodesMeet(code0, code1) THEN 0
        ELSE IF fuel = 0 THEN 1
        ELSE LET n == cs_clip_once(x0, y0, x1, y1, rect)
             IN  1 + cs_passes(n[1], n[2], n[3], n[4], rect, fuel - 1)

(***************************************************************************)
(* SpecClip: both clippers applied to an integer segment and a rectangle.  *)
(***************************************************************************)
Coord == MinCoord .. MaxCoord

ClipCall(x0, y0, x1, y1, l, t, w, h) ==
    [fn |-> "clip", p0 |-> Point(x0, y0), p1 |-> Point(x1, y1), rect |-> Rect4(l, t, w, h)]

\* the segments and rectangles the specification names
NamedClipCalls ==
    { ClipCall(0, 0, 10, 10, 2, 2, 4, 4),
      ClipCall(100, 100, 200, 200, 0, 0, 10, 10) }

ClipCalls ==
    { ClipCall(x0, y0, x1, y1, 0, t, w, h) :
        x0 \in Coord, y0 \in Coord, x1 \in Coord, y1 \in Coord,
        t \in 0 .. 1, w \in 0 .. MaxRectSide, h \in 0 .. MaxRectSide }
    \cup NamedClipCalls

NoRet == [cs_done |-> FALSE, cs |-> NoneResult, lb_done |-> FALSE, lb |-> NoneResult]

InitClip ==
    /\ call \in ClipCalls
    /\ ret = NoRet
    /\ AppConstructed

CallCohenSutherland ==
    /\ call.fn = "clip"
    /\ ~ret.cs_done
    /\ ret' = [ret EXCEPT !.cs_done = TRUE,
                          !.cs = cohen_sutherland_clip(call.p0, call.p1, call.rect)]
    /\ UNCHANGED call
    /\ UNCHANGED appVars

CallLiangBarsky ==
    /\ call.fn = "clip"
    /\ ~ret.lb_done
    /\ ret' = [ret EXCEPT !.lb_done = TRUE,
                          !.lb = liang_barsky_clip(call.p0, call.p1, call.rect)]
    /\ UNCHANGED call
    /\ UNCHANGED appVars

NextClip == CallCohenSutherland \/ CallLiangBarsky

SpecClip == InitClip /\ [][NextClip]_vars

(***************************************************************************)
(* Claims about the clippers (SpecClip).                                   *)
(***************************************************************************)
\* The segment p0-p1 has a point in the closed rectangle: the bounding boxes
\* overlap and the four corners are not strictly on one side of the line.
Side(p0, p1, x, y) == (p1.x - p0.x) * (y - p0.y) - (p1.y - p0.y) * (x - p0.x)

SegmentMeetsRect(p0, p1, rect) ==
    LET l == rect.left
        r == rect.left + rect.width
        t == rect.top
        b == rect.top + rect.height
        s == { Side(p0, p1, c[1], c[2]) : c \in {<<l, t>>, <<r, t>>, <<l, b>>, <<r, b>>} }
    IN  /\ Max(p0.x, p1.x) >= l /\ Min(p0.x, p1.x) <= r
        /\ Max(p0.y, p1.y) >= t /\ Min(p0.y, p1.y) <= b
        /\ ~(\A v \in s : v > 0)
        /\ ~(\A v \in s : v < 0)

InClosedRect(x, y, rect) ==
    /\ rect.left <= x /\ x <= rect.left + rect.width
    /\ rect.top <= y /\ y <= rect.top + rect.height

ResultInRect(res, rect) ==
    res.kind = "Some" =>
        InClosedRect(res.x0, res.y0, rect) /\ InClosedRect(res.x1, res.y1, rect)

\* C1: whenever either clipper returns endpoints, both endpoints lie in the
\* closed rectangle left <= x <= left + width, top <= y <= top + height.
Thm_C1_EndpointsInsideRect ==
    call.fn = "clip" =>
        /\ ret.cs_done => (ret.cs.kind # "Unfinished" /\ ResultInRect(ret.cs, call.rect))
        /\ ret.lb_done => ResultInRect(ret.lb, call.rect)

\* a segment with both ends outside that both clippers shortened
Wit_C1_BothShortened ==
    /\ call.fn = "clip" /\ ret.cs_done /\ ret.lb_done
    /\ ret.cs.kind = "Some" /\ ret.lb.kind = "Some"
    /\ call.rect.width > 0 /\ call.rect.height > 0
    /\ ~InClosedRect(call.p0.x, call.p0.y, call.rect)
    /\ ~InClosedRect(call.p1.x, call.p1.y, call.rect)

\* C2: a segment with no point in the closed rectangle is reported fully
\* outside (None) by both clippers.
Cex_C2_OutsideIsNone ==
    (call.fn = "clip" /\ ~SegmentMeetsRect(call.p0, call.p1, call.rect)) =>
        /\ ret.cs_done => ret.cs.kind = "None"
        /\ ret.lb_done => ret.lb.kind = "None"

\* C3: a segment with at least one point in the closed rectangle gets
\* endpoints, not None, from both clippers.
Cex_C3_MeetingIsSome ==
    (call.fn = "clip" /\ SegmentMeetsRect(call.p0, call.p1, call.rect)) =>
        /\ ret.cs_done => ret.cs.kind = "Some"
        /\ ret.lb_done => ret.lb.kind = "Some"

\* C4: the two clippers agree up to rounding: both None, or both endpoints
\* with corresponding coordinates at most 1 apart.
Cex_C4_ClippersAgree ==
    (call.fn = "clip" /\ ret.cs_done /\ ret.lb_done) =>
        \/ ret.cs.kind = "None" /\ ret.lb.kind = "None"
        \/ /\ ret.cs.kind = "Some" /\ ret.lb.kind = "Some"
           /\ Abs(ret.cs.x0 - ret.lb.x0) <= 1 /\ Abs(ret.cs.y0 - ret.lb.y0) <= 1
           /\ Abs(ret.cs.x1 - ret.lb.x1) <= 1 /\ Abs(ret.cs.y1 - ret.lb.y1) <= 1

(***************************************************************************)
(* SpecOps: apply_clipping_to_lines on a scene of a few lines.             *)
(***************************************************************************)
MaxOpsLines == 3

OpsRect == Rect4(0, 0, 2, 2)
\* inside, shortened at one end, shortened at both ends, outside, and outside
\* but passing half a pixel from the corner (0,0)
OpsSegments ==
    { <<1, 1, 2, 1>>, <<1, 1, 4, 1>>, <<0 - 1, 1, 3, 1>>, <<3, 3, 4, 4>>, <<0 - 1, 0, 1, 0 - 1>> }

OpsLines ==
    { Line(Point(s[1], s[2]), Point(s[3], s[4]), IF s[1] = 1 THEN "DDA" ELSE "BRESENHAM") :
        s \in OpsSegments }

RECURSIVE SeqsUpTo(_, _)
SeqsUpTo(S, n) ==
    IF n = 0 THEN {<<>>}
    ELSE LET shorter == SeqsUpTo(S, n - 1)
         IN  shorter \cup { Append(q, e) : q \in { q \in shorter : Len(q) = n - 1 }, e \in S }

OpsCall(lines, rect, algo, selected) ==
    [fn |-> "apply_clipping_to_lines", lines |-> lines, rect |-> rect,
     algo |-> algo, selected |-> selected]

\* five lines, two of them outside the rectangle and three shortened by it
FiveLines ==
    << Line(Point(1, 1), Point(4, 1), "DDA"), Line(Point(3, 3), Point(4, 4), "DDA"),
       Line(Point(0 - 1, 1), Point(3, 1), "BRESENHAM"), Line(Point(1, 0 - 1), Point(1, 1), "DDA"),
       Line(Point(5, 0), Point(5, 2), "DDA") >>

OpsCalls ==
    { OpsCall(ls, OpsRect, a, sel) :
        ls \in SeqsUpTo(OpsLines, MaxOpsLines), a \in {"CS", "LB"},
        sel \in {NoneSelected} \cup { Selected(x) : x \in SUBSET (0 .. MaxOpsLines) } }
    \cup { OpsCall(FiveLines, OpsRect, a, sel) :
             a \in {"CS", "LB"}, sel \in {NoneSelected, Selected({}), Selected(0 .. 4)} }

\* tools/clip_actions.py: clip_lines(algo, scene, state, canvas), the world
\* after it and the (kept, removed) pair it returns
clip_lines_done(w, r) ==
    [w |-> [w EXCEPT !.scene.lines = r.lines, !.state.selection.selected_lines = {}],
     kept |-> r.kept, removed |-> r.removed]

clip_lines(w, algo) ==
    IF w.state.clip.window = None THEN [w |-> w, kept |-> 0, removed |-> 0]
    ELSE clip_lines_done(w, clip_each(w.scene.lines, w.state.clip.window[1], algo,
                                      Selected(w.state.selection.selected_lines), 0,
                                      [lines |-> <<>>, kept |-> 0, removed |-> 0]))

\* the world clip_lines is called in: the lines, the window and the
\* selection of the call
OpsWorld ==
    [InitWorld EXCEPT !.scene.lines = call.lines,
                      !.state.clip.window = Some(call.rect),
                      !.state.selection.selected_lines = call.selected.idx]

NoOpsRet ==
    [done |-> FALSE, lines |-> <<>>, kept |-> 0, removed |-> 0,
     cl_done |-> FALSE, cl_lines |-> <<>>, cl_kept |-> 0, cl_removed |-> 0,
     cl_selected |-> {}]

InitOps ==
    /\ call \in OpsCalls
    /\ ret = NoOpsRet
    /\ AppConstructed

CallApplyClipping ==
    /\ call.fn = "apply_clipping_to_lines"
    /\ ~ret.done
    /\ \E r \in {apply_clipping_to_lines(call.lines, call.rect, call.algo, call.selected)} :
          ret' = [ret EXCEPT !.done = TRUE, !.lines = r.lines,
                             !.kept = r.kept, !.removed = r.removed]
    /\ UNCHANGED call
    /\ UNCHANGED appVars

CallClipLines ==
    /\ call.fn = "apply_clipping_to_lines"
    /\ ~ret.cl_done
    /\ \E r \in {clip_lines(OpsWorld, call.algo)} :
          ret' = [ret EXCEPT !.cl_done = TRUE, !.cl_lines = r.w.scene.lines,
                             !.cl_kept = r.kept, !.cl_removed = r.removed,
                             !.cl_selected = r.w.state.selection.selected_lines]
    /\ UNCHANGED call
    /\ UNCHANGED appVars

NextOps == CallApplyClipping \/ CallClipLines

SpecOps == InitOps /\ [][NextOps]_vars

\* the candidate indices: every line when the selected set is empty or absent
Candidates(lines, selected) ==
    IF ~selected.given \/ selected.idx = {}
    THEN 0 .. Len(lines) - 1
    ELSE { i \in 0 .. Len(lines) - 1 : i \in selected.idx }

\* C10: kept + removed is the number of candidate lines, removed is the number
\* of candidates the chosen clipper reports fully outside, and the rebuilt
\* list is shorter than the old one by exactly removed.
Thm_C10_ClipCounts ==
    (call.fn = "apply_clipping_to_lines" /\ ret.done) =>
        LET cand == Candidates(call.lines, call.selected)
            out == { i \in cand : clip_with(call.algo, call.lines[i + 1], call.rect).kind = "None" }
        IN  /\ ret.kept + ret.removed = Cardinality(cand)
            /\ ret.removed = Cardinality(out)
            /\ Len(ret.lines) = Len(call.lines) - ret.removed

\* five candidate lines, two excluded and three shortened: (3, 2)
Wit_C10_FiveLines ==
    /\ call.fn = "apply_clipping_to_lines" /\ ret.done
    /\ call.lines = FiveLines
    /\ ret.kept = 3 /\ ret.removed = 2 /\ Len(ret.lines) = 3
    /\ \A i \in 1 .. 3 : ret.lines[i] \notin { FiveLines[j] : j \in 1 .. 5 }

\* the old indices whose line is in the rebuilt list: the non-candidates and
\* the candidates the clipper does not report fully outside
Survivors(lines, rect, algo, selected) ==
    { i \in 0 .. Len(lines) - 1 :
        i \in Candidates(lines, selected) => clip_with(algo, lines[i + 1], rect).kind # "None" }

\* rebuilt holds one line for each surviving old index, in the order of the
\* old list; the line of a non-candidate is the old line itself, that of a
\* candidate carries the old tag
OrderKept(lines, rect, algo, selected, rebuilt) ==
    \A surv \in {Survivors(lines, rect, algo, selected)} :
        /\ Len(rebuilt) = Cardinality(surv)
        /\ \A i \in surv :
              \A place \in {Cardinality({ j \in surv : j <= i })} :
                  IF i \in Candidates(lines, selected)
                  THEN \A res \in {clip_with(algo, lines[i + 1], rect)} :
                           rebuilt[place] = Line(Point(res.x0, res.y0), Point(res.x1, res.y1),
                                                 lines[i + 1].algo)
                  ELSE rebuilt[place] = lines[i + 1]

\* C11: with a non-empty selected set, apply_clipping_to_lines and
\* clip_lines carry every non-candidate line into the rebuilt list with its
\* endpoints and tag unchanged, and the surviving lines, candidates or not,
\* stand in the rebuilt list in the order they had in the old one.
Thm_C11_PassThroughInOrder ==
    (call.fn = "apply_clipping_to_lines" /\ call.selected.given /\ call.selected.idx # {}) =>
        /\ ret.done =>
              OrderKept(call.lines, call.rect, call.algo, call.selected, ret.lines)
        /\ ret.cl_done =>
              OrderKept(call.lines, call.rect, call.algo, call.selected, ret.cl_lines)

\* a candidate was dropped from between two lines outside the selection,
\* which are now neighbours
Wit_C11_DroppedBetweenPassed ==
    /\ call.fn = "apply_clipping_to_lines" /\ ret.done /\ ret.cl_done
    /\ call.selected = Selected({1})
    /\ Len(call.lines) = 3 /\ call.lines[1] # call.lines[3]
    /\ ret.lines = <<call.lines[1], call.lines[3]>>
    /\ ret.cl_lines = ret.lines
    /\ ~InClosedRect(call.lines[1].p1.x, call.lines[1].p1.y, call.rect)

(***************************************************************************)
(* Spec: the application.  One action for each kind of input of the main   *)
(* loop and one for the drawing of a frame.                                *)
(***************************************************************************)
MaxClicks == 5
MaxSwitches == 3

\* pointer positions on the canvas
CanvasPos == {<<20, 40>>, <<60, 80>>}

NoCall == [fn |-> "none"]

Init ==
    /\ call = NoCall
    /\ ret = NoCall
    /\ AppConstructed

\* the bounds of the model: a mouse button goes down over the canvas
\* MaxClicks times at most, and state.mode changes MaxSwitches times at most
WithinBounds(w, ev) ==
    /\ (ev.type = "MOUSEBUTTONDOWN" /\ ~ev.sidebar) => clicks < MaxClicks
    /\ w.state.mode # state.mode => switches < MaxSwitches

Counted(w, ev) ==
    /\ clicks' = IF ev.type = "MOUSEBUTTONDOWN" /\ ~ev.sidebar THEN clicks + 1 ELSE clicks
    /\ switches' = IF w.state.mode # state.mode THEN switches + 1 ELSE switches

Input(ev) ==
    /\ run = "running"
    /\ event_modelled(World, ev)
    /\ \E w \in {main_loop_event(World, ev)} :
          /\ WithinBounds(w, ev)
          /\ Becomes(w, NoEvent)
          /\ Counted(w, ev)
    /\ UNCHANGED <<pureVars, moves>>

MouseButtonDown ==
    \E p \in CanvasPos : Input(Event("MOUSEBUTTONDOWN", Some(p), FALSE, FALSE))

MouseMotion ==
    \E p \in CanvasPos : Input(Event("MOUSEMOTION", Some(p), FALSE, FALSE))

MouseButtonUp ==
    \E p \in CanvasPos : Input(Event("MOUSEBUTTONUP", Some(p), FALSE, FALSE))

SidebarClick ==
    \E label \in ButtonLabels : Input(SidebarEvent("MOUSEBUTTONDOWN", label))

\* the pointer moves, or a button is released, over the sidebar
SidebarOther ==
    \E type \in {"MOUSEMOTION", "MOUSEBUTTONUP"} : Input(SidebarEvent(type, ""))

KeyPress ==
    \E key \in {"v", "1", "2", "RETURN", "0", "DELETE"} : Input(KeyDown(key))

QuitEvent == Input(Quit) \/ Input(KeyDown("ESCAPE"))

\* the history keeps a frame whose draw_overlay found a selection index
\* that is past the end of scene.lines or scene.circles
Frame == Event("FRAME", None, FALSE, FALSE)

stale_selection(w) ==
    \/ \E i \in w.state.selection.selected_lines : i >= Len(w.scene.lines)
    \/ \E i \in w.state.selection.selected_circles : i >= Len(w.scene.circles)

\* the end of a frame: sidebar.draw and draw_overlay
DrawOverlay ==
    /\ run = "running"
    /\ Becomes(draw_overlay(World), IF stale_selection(World) THEN Frame ELSE NoEvent)
    /\ UNCHANGED <<pureVars, clicks, switches, moves>>

Next ==
    \/ MouseButtonDown
    \/ MouseMotion
    \/ MouseButtonUp
    \/ SidebarClick
    \/ SidebarOther
    \/ KeyPress
    \/ QuitEvent
    \/ DrawOverlay

Spec == Init /\ [][Next]_vars

(***************************************************************************)
(* C5.  After Enter has applied the clip and removed at least one line,    *)
(* state.selection.selected_lines holds no index >= len(scene.lines) in    *)
(* the state in which the key handler returns.                             *)
(***************************************************************************)
Cex_C5_SelectionValidAfterClip ==
    [][(World' = main_loop_event(World, KeyDown("RETURN"))
          /\ Len(scene'.lines) < Len(scene.lines))
          => \A i \in state'.selection.selected_lines : i < Len(scene'.lines)]_vars

(***************************************************************************)
(* C6.  In the application as wired in app.py, whatever the sequence of    *)
(* mouse, key and button events and frames, no operation subscripts        *)
(* scene.lines or scene.circles with an index past its end: the main loop  *)
(* never ends with an IndexError.                                          *)
(***************************************************************************)
Thm_C6_NoStaleSubscript == run # "IndexError"

\* draw_overlay has met a stale selection index and has returned
Wit_C6_FrameDroppedStaleIndex == last = Frame /\ run = "running"


(***************************************************************************)
(* SpecGesture: SelectTransformTool at work on a scene.  The scene has     *)
(* been drawn, the mode is SELECT and the dispatcher has entered the tool; *)
(* nothing is selected yet, or an earlier rubber band has selected every   *)
(* primitive;                                                              *)
(* the inputs are the mouse events over the canvas, which the main loop    *)
(* hands to the tool.  Here the history keeps every input.                 *)
(***************************************************************************)
MaxPresses == 2
MaxMoves == 2

\* pointer positions: inside the nw handle of the box (20, 40, 40, 40) but
\* off its centre, the centre of the box, its se corner, a point beyond
\* that corner, and the rotation knob above the box
GesturePos == {<<25, 45>>, <<40, 60>>, <<60, 80>>, <<80, 100>>, <<40, 14>>}

\* the scenes: a line built by Line(), circles built by Circle() (one with
\* a negative radius) and a circle committed by CircleTool
tool_circle(c, p) ==
    LET w1 == circle_handle_canvas_event(InitWorld, Event("MOUSEBUTTONDOWN", Some(c), FALSE, FALSE))
        w2 == circle_handle_canvas_event(w1, Event("MOUSEBUTTONDOWN", Some(p), FALSE, FALSE))
    IN  w2.scene.circles

GestureLines == {<<>>, <<Line(Point(20, 40), Point(60, 80), "DDA")>>}

GestureCircles ==
    {<<>>, <<Circle(Point(40, 60), 0 - 3)>>, <<Circle(Point(40, 60), 20)>>,
     tool_circle(<<40, 60>>, <<40, 40>>) \o <<Circle(Point(45, 60), 5)>>}

InitGesture ==
    /\ call = NoCall
    /\ ret = NoCall
    /\ \E ls \in GestureLines, cs \in GestureCircles, picked \in BOOLEAN :
          /\ scene = [lines |-> ls, circles |-> cs]
          /\ state = [InitState EXCEPT
                         !.mode = "SELECT",
                         !.selection.selected_lines =
                             IF picked THEN 0 .. Len(ls) - 1 ELSE {},
                         !.selection.selected_circles =
                             IF picked THEN 0 .. Len(cs) - 1 ELSE {}]
    /\ stt = InitSelectTool
    /\ cwt = InitClipTool
    /\ last_mode = "SELECT"
    /\ run = "running"
    /\ last = NoEvent
    /\ clicks = 0
    /\ switches = 0
    /\ moves = 0

\* the bounds of the model: a mouse button goes down MaxPresses times at
\* most, and a gesture handles MaxMoves pointer motions at most
Gesture(ev) ==
    /\ run = "running"
    /\ ev.type = "MOUSEBUTTONDOWN" => clicks < MaxPresses
    /\ ev.type = "MOUSEMOTION" => moves < MaxMoves
    /\ event_modelled(World, ev)
    /\ Becomes(main_loop_event(World, ev), ev)
    /\ clicks' = IF ev.type = "MOUSEBUTTONDOWN" THEN clicks + 1 ELSE clicks
    /\ moves' = IF ev.type = "MOUSEMOTION" THEN moves + 1 ELSE 0
    /\ UNCHANGED <<pureVars, switches>>

Press ==
    \E p \in GesturePos, alt \in BOOLEAN :
        Gesture(Event("MOUSEBUTTONDOWN", Some(p), FALSE, alt))

Drag ==
    \E p \in GesturePos, shift \in BOOLEAN :
        Gesture(Event("MOUSEMOTION", Some(p), shift, FALSE))

Release ==
    \E p \in GesturePos : Gesture(Event("MOUSEBUTTONUP", Some(p), FALSE, FALSE))

NextGesture ==
    \/ Press
    \/ Drag
    \/ Release

SpecGesture == InitGesture /\ [][NextGesture]_vars


\* the scene with every snapshotted primitive back at its snapshot values
Restored(w) ==
    write_snapshot(w, w.state.transform.lines_snapshot, w.state.transform.circles_snapshot)

InGesture ==
    /\ last.type = "MOUSEMOTION"
    /\ state.transform.dragging
    /\ stt.mode \in {"moving", "scaling", "rotating"}

(***************************************************************************)
(* C7.  During a move, rotate or scale gesture, after any sequence of      *)
(* pointer motions the scene is what the update for the latest pointer     *)
(* position makes of the snapshot taken at the start of the gesture; for a *)
(* move (with no rubber band left open by an earlier button press), that   *)
(* is each snapshot value shifted by pointer minus anchor.                 *)
(***************************************************************************)
Thm_C7_UpdateFromSnapshot ==
    InGesture =>
        /\ scene = select_handle_canvas_event(Restored(World), last).scene
        /\ (stt.mode = "moving" /\ ~state.selection.selecting) =>
              \A e \in state.transform.lines_snapshot :
                  LET ln == scene.lines[e[1] + 1]
                      dx == last.cpos[1][1] - state.transform.anchor[1][1]
                      dy == last.cpos[1][2] - state.transform.anchor[1][2]
                  IN  <<ln.p0.x, ln.p0.y, ln.p1.x, ln.p1.y>>
                          = <<e[2][1] + dx, e[2][2] + dy, e[2][3] + dx, e[2][4] + dy>>

\* a second motion of one gesture has left the primitives off their snapshot
Wit_C7_SecondUpdate ==
    InGesture /\ moves = 2 /\ scene # Restored(World).scene

(***************************************************************************)
(* C8.  Whenever the pointer of a move, rotate or scale gesture is back at *)
(* the position where the gesture began, every snapshotted line endpoint,  *)
(* circle centre and radius equals its snapshot value.                     *)
(***************************************************************************)
Cex_C8_ZeroDragIsIdentity ==
    (InGesture /\ last.cpos = state.transform.anchor) => scene = Restored(World).scene

(***************************************************************************)
(* C9.  In every reachable state every circle of the scene has r >= 0:     *)
(* as constructed, as committed by CircleTool, and after every update of a *)
(* move, rotate or scale gesture, a scale by a zero or negative factor     *)
(* included.                                                               *)
(***************************************************************************)
Thm_C9_RadiusNonNegative ==
    \A i \in 1 .. Len(scene.circles) : scene.circles[i].r >= 0

\* a scale gesture has applied a negative factor to a circle of positive
\* radius
Wit_C9_NegativeFactor ==
    /\ InGesture
    /\ stt.mode = "scaling"
    /\ LET s == scale_factors(stt.handle[1], stt.h0[1], stt.pivot[1], last.cpos[1], last.shift)
       IN  /\ FracNeg(s[1])
           /\ FracNeg(s[2])
           /\ \E e \in state.transform.circles_snapshot :
                  e[2][3] > 0 /\ scene.circles[e[1] + 1].r > 0

(***************************************************************************)
(* algorithms/lines.py, algorithms/circles.py.  A rasterizer is the        *)
(* sequence of the pixels <<x, y>> it hands to put_pixel, in order, before *)
(* put_pixel drops those off the surface.                                  *)
(***************************************************************************)
\* round(v) for the float v the DDA loop has accumulated for num/den.  An
\* integer and a value that is no half are rounded as the exact value is.
\* A half is exact in the float when the increment is a dyadic fraction
\* and is rounded to even; any other half has picked up a rounding error
\* and falls to either side.
dda_round(num, den, inc) ==
    IF is_half(num, den) /\ ~dyadic(inc)
    THEN { (2 * num - Abs(den)) \div (2 * Abs(den)), (2 * num + Abs(den)) \div (2 * Abs(den)) }
    ELSE { round_half_even(num, den) }

\* the passes k .. n - 1 of `for _ in range(n)`
RECURSIVE dda_loop(_, _, _, _, _, _)
dda_loop(p0, dx, dy, steps, k, n) ==
    IF k >= n THEN {<<>>}
    ELSE { <<<<x, y>>>> \o rest :
             x \in dda_round(p0.x * steps + k * dx, steps, <<dx, steps>>),
             y \in dda_round(p0.y * steps + k * dy, steps, <<dy, steps>>),
             rest \in dda_loop(p0, dx, dy, steps, k + 1, n) }

\* a slip: range(steps), which stops one pass short
draw_line_dda_short(p0, p1) ==
    LET dx == p1.x - p0.x
        dy == p1.y - p0.y
        steps == Max(Abs(dx), Abs(dy))
    IN  IF steps = 0 THEN {<<<<p0.x, p0.y>>>>}
        ELSE dda_loop(p0, dx, dy, steps, 0, steps)

\* the pixel sequences draw_line_dda may emit for p0, p1
draw_line_dda(p0, p1) ==
    LET dx == p1.x - p0.x
        dy == p1.y - p0.y
        steps == Max(Abs(dx), Abs(dy))
    IN  IF steps = 0 THEN {<<<<p0.x, p0.y>>>>}
        ELSE dda_loop(p0, dx, dy, steps, 0, steps + 1)

\* a pass of `while True` from the current point (x0, y0); the loop is
\* followed for fuel passes
RECURSIVE bresenham_loop(_, _, _, _, _, _, _, _, _, _, _)
bresenham_loop(x0, y0, x1, y1, dx, dy, sx, sy, err, fuel, acc) ==
    LET out == Append(acc, <<x0, y0>>)
        e2 == 2 * err
        stepx == e2 > 0 - dy
        stepy == e2 < dx
        err1 == IF stepx THEN err - dy ELSE err
    IN  IF x0 = x1 /\ y0 = y1 THEN [pixels |-> out, finished |-> TRUE]
        ELSE IF fuel = 0 THEN [pixels |-> out, finished |-> FALSE]
        ELSE bresenham_loop(IF stepx THEN x0 + sx ELSE x0, IF stepy THEN y0 + sy ELSE y0,
                            x1, y1, dx, dy, sx, sy,
                            IF stepy THEN err1 + dx ELSE err1, fuel - 1, out)

\* a slip: the error term starts at dy - dx
draw_line_bresenham_err_swapped(p0, p1, fuel) ==
    LET dx == Abs(p1.x - p0.x)
        dy == Abs(p1.y - p0.y)
    IN  bresenham_loop(p0.x, p0.y, p1.x, p1.y, dx, dy,
                       IF p0.x < p1.x THEN 1 ELSE 0 - 1, IF p0.y < p1.y THEN 1 ELSE 0 - 1,
                       dy - dx, fuel, <<>>)

draw_line_bresenham(p0, p1, fuel) ==
    LET dx == Abs(p1.x - p0.x)
        dy == Abs(p1.y - p0.y)
    IN  bresenham_loop(p0.x, p0.y, p1.x, p1.y, dx, dy,
                       IF p0.x < p1.x THEN 1 ELSE 0 - 1, IF p0.y < p1.y THEN 1 ELSE 0 - 1,
                       dx - dy, fuel, <<>>)

\* a slip: the mirror image in the last octant is left out
circle_points_seven(cx, cy, x, y) ==
    << <<cx + x, cy + y>>, <<cx + y, cy + x>>, <<cx - x, cy + y>>, <<cx - y, cy + x>>,
       <<cx + x, cy - y>>, <<cx + y, cy - x>>, <<cx - x, cy - y>> >>

\* the eight put_pixel calls of one pass of the circle loop
circle_points(cx, cy, x, y) ==
    << <<cx + x, cy + y>>, <<cx + y, cy + x>>, <<cx - x, cy + y>>, <<cx - y, cy + x>>,
       <<cx + x, cy - y>>, <<cx + y, cy - x>>, <<cx - x, cy - y>>, <<cx - y, cy - x>> >>

\* `while x <= y`
RECURSIVE circle_loop(_, _, _, _, _, _)
circle_loop(cx, cy, x, y, d, acc) ==
    IF x > y THEN acc
    ELSE LET out == acc \o circle_points(cx, cy, x, y)
             x1 == x + 1
         IN  IF d < 0 THEN circle_loop(cx, cy, x1, y, d + 2 * x1 + 1, out)
             ELSE circle_loop(cx, cy, x1, y - 1, d + 2 * (x1 - (y - 1)) + 1, out)

draw_circle_bresenham(center, r) ==
    IF r <= 0 THEN <<<<center.x, center.y>>>>
    ELSE circle_loop(center.x, center.y, 0, r, 1 - r, <<>>)

(***************************************************************************)
(* SpecDraw: the rasterizers applied to a segment or to a circle.          *)
(***************************************************************************)
MaxPixel == 3
MaxRadius == 6

Pixel == (0 - MaxPixel) .. MaxPixel

\* more passes than a segment of the model has pixels
BresenhamFuel == 4 * MaxPixel + 4

DrawLineCall(x0, y0, x1, y1) == [fn |-> "draw_line", p0 |-> Point(x0, y0), p1 |-> Point(x1, y1)]
DrawCircleCall(cx, cy, r) == [fn |-> "draw_circle", center |-> Point(cx, cy), r |-> r]

DrawCalls ==
    { DrawLineCall(x0, y0, x1, y1) : x0 \in Pixel, y0 \in Pixel, x1 \in Pixel, y1 \in Pixel }
    \cup { DrawCircleCall(c[1], c[2], r) :
             c \in {<<0, 0>>, <<MaxPixel, 0 - 2>>}, r \in (0 - 1) .. MaxRadius }

NoDrawRet ==
    [dda_done |-> FALSE, dda |-> <<>>, bresenham_done |-> FALSE, bresenham |-> <<>>,
     finished |-> FALSE, circle_done |-> FALSE, circle |-> <<>>]

InitDraw ==
    /\ call \in DrawCalls
    /\ ret = NoDrawRet
    /\ AppConstructed

CallDrawLineDDA ==
    /\ call.fn = "draw_line"
    /\ ~ret.dda_done
    /\ \E pixels \in draw_line_dda(call.p0, call.p1) :
          ret' = [ret EXCEPT !.dda_done = TRUE, !.dda = pixels]
    /\ UNCHANGED call
    /\ UNCHANGED appVars

CallDrawLineBresenham ==
    /\ call.fn = "draw_line"
    /\ ~ret.bresenham_done
    /\ LET r == draw_line_bresenham(call.p0, call.p1, BresenhamFuel)
       IN  ret' = [ret EXCEPT !.bresenham_done = TRUE, !.bresenham = r.pixels,
                              !.finished = r.finished]
    /\ UNCHANGED call
    /\ UNCHANGED appVars

CallDrawCircle ==
    /\ call.fn = "draw_circle"
    /\ ~ret.circle_done
    /\ ret' = [ret EXCEPT !.circle_done = TRUE,
                          !.circle = draw_circle_bresenham(call.center, call.r)]
    /\ UNCHANGED call
    /\ UNCHANGED appVars

NextDraw ==
    \/ CallDrawLineDDA
    \/ CallDrawLineBresenham
    \/ CallDrawCircle

SpecDraw == InitDraw /\ [][NextDraw]_vars

(***************************************************************************)
(* C12.  For every segment, the first pixel the DDA and the Bresenham      *)
(* rasterization emit is the start pixel p0 and the last is the end pixel  *)
(* p1.                                                                     *)
(***************************************************************************)
Thm_C12_EndpointFidelity ==
    call.fn = "draw_line" =>
        /\ ret.dda_done =>
              /\ ret.dda[1] = <<call.p0.x, call.p0.y>>
              /\ ret.dda[Len(ret.dda)] = <<call.p1.x, call.p1.y>>
        /\ ret.bresenham_done =>
              /\ ret.finished
              /\ ret.bresenham[1] = <<call.p0.x, call.p0.y>>
              /\ ret.bresenham[Len(ret.bresenham)] = <<call.p1.x, call.p1.y>>

\* a slanted segment that the two rasterizers draw with different pixels in
\* the middle
Wit_C12_DifferInTheMiddle ==
    /\ call.fn = "draw_line" /\ ret.dda_done /\ ret.bresenham_done
    /\ call.p0.x # call.p1.x /\ call.p0.y # call.p1.y
    /\ Len(ret.dda) > 3
    /\ ret.dda # ret.bresenham
    /\ ret.dda[Len(ret.dda)] = ret.bresenham[Len(ret.bresenham)]

(***************************************************************************)
(* C13.  For every centre and every r > 0 the set of pixels of             *)
(* draw_circle_bresenham is closed under the eight reflections about the   *)
(* centre: with (cx + a, cy + b) it holds (cx +- a, cy +- b) and           *)
(* (cx +- b, cy +- a).                                                     *)
(***************************************************************************)
Thm_C13_CircleSymmetry ==
    (call.fn = "draw_circle" /\ ret.circle_done /\ call.r > 0) =>
        LET S == { ret.circle[k] : k \in 1 .. Len(ret.circle) }
            cx == call.center.x
            cy == call.center.y
        IN  \A p \in S :
                LET a == p[1] - cx
                    b == p[2] - cy
                IN  \A sa \in {0 - 1, 1}, sb \in {0 - 1, 1} :
                        /\ <<cx + sa * a, cy + sb * b>> \in S
                        /\ <<cx + sa * b, cy + sb * a>> \in S

\* a circle off the origin whose loop has run more than twice
Wit_C13_SeveralPasses ==
    /\ call.fn = "draw_circle" /\ ret.circle_done
    /\ call.r > 3 /\ call.center # Point(0, 0)
    /\ Len(ret.circle) > 16
    /\ \E k \in 1 .. Len(ret.circle) :
          Abs(ret.circle[k][1] - call.center.x) \notin {0, call.r, Abs(ret.circle[k][2] - call.center.y)}

\* the centre of a box, doubled
BoxCentre2(rect) == <<2 * rect.left + rect.width, 2 * rect.top + rect.height>>

\* the pivot a gesture that starts on box takes: the centre of the box for
\* a rotation and for a scale from the centre, else the handle opposite to
\* the grabbed one (doubled)
PivotAtStart(box, mode, handle, from_center) ==
    IF mode = "rotating" \/ from_center THEN BoxCentre2(box)
    ELSE LET opp == bbox_handles(box, ROT_HANDLE_OFFSET)[OPPOSITE[handle[1]]]
         IN  <<2 * opp[1], 2 * opp[2]>>

\* a button press has started a rotate or scale gesture from rest
GestureStarts ==
    /\ ~state.transform.dragging
    /\ last'.type = "MOUSEBUTTONDOWN"
    /\ stt'.mode \in {"scaling", "rotating"}

\* a rotate or scale gesture is in progress before and after the step
GestureGoesOn ==
    /\ state.transform.dragging /\ stt.mode \in {"scaling", "rotating"}
    /\ state'.transform.dragging /\ stt'.mode \in {"scaling", "rotating"}

PivotSetAtStart ==
    [][GestureStarts =>
          stt'.pivot = Some(PivotAtStart(selection_bbox(scene, state)[1], stt'.mode,
                                         stt'.handle, last'.alt))]_vars

(***************************************************************************)
(* C14.  A rotate gesture takes the centre of the selection's bounding box *)
(* as its pivot and a scale gesture the position of the opposite handle,   *)
(* or the centre of the box when Alt is down, at the start of the gesture; *)
(* from then until the gesture ends no event changes the pivot, so every   *)
(* update uses the pivot of the start.                                     *)
(***************************************************************************)
Cex_C14_PivotFixedForGesture ==
    [][/\ GestureStarts =>
             stt'.pivot = Some(PivotAtStart(selection_bbox(scene, state)[1], stt'.mode,
                                            stt'.handle, last'.alt))
       /\ GestureGoesOn => stt'.pivot = stt.pivot]_vars

\* a move, scale, rotate or rubber-band gesture is in progress
GestureInProgress == state.transform.dragging \/ state.selection.selecting

(***************************************************************************)
(* C15.  At most one gesture is in progress at any time:                   *)
(* state.selection.selecting and state.transform.dragging are never both   *)
(* true, and a mouse-button-down that arrives while a move, scale, rotate  *)
(* or rubber-band gesture is in progress begins no second gesture and does *)
(* not take the snapshot again.                                            *)
(***************************************************************************)
Cex_C15_OneGestureAtATime ==
    [][/\ ~(state'.selection.selecting /\ state'.transform.dragging)
       /\ (last'.type = "MOUSEBUTTONDOWN" /\ GestureInProgress) =>
             /\ state'.transform = state.transform
             /\ state'.selection = state.selection
             /\ stt' = stt]_vars

(***************************************************************************)
(* C16.  While a transform gesture is in progress                          *)
(* (state.transform.dragging is true) no step shortens scene.lines, and    *)
(* the Enter key, which applies the clip, leaves scene.lines as it is: the *)
(* index of a snapshot entry names the primitive it was taken from for as  *)
(* long as the gesture lasts.                                              *)
(***************************************************************************)
Cex_C16_LinesStableDuringGesture ==
    [][state.transform.dragging =>
          /\ Len(scene'.lines) = Len(scene.lines)
          /\ World' = main_loop_event(World, KeyDown("RETURN")) => scene'.lines = scene.lines]_vars

\* the mouse-button-up events of the model: over the canvas and over the
\* sidebar
ButtonUps ==
    { Event("MOUSEBUTTONUP", Some(p), FALSE, FALSE) : p \in CanvasPos }
    \cup { SidebarEvent("MOUSEBUTTONUP", "") }

(***************************************************************************)
(* C17.  When the application has processed a mouse-button-up, over the    *)
(* canvas or over the sidebar, state.transform.dragging is false, both     *)
(* snapshots are empty and the gesture mode of SelectTransformTool is      *)
(* None.                                                                   *)
(***************************************************************************)
Cex_C17_ButtonUpEndsGesture ==
    [][(\E ev \in ButtonUps : World' = main_loop_event(World, ev)) =>
          /\ ~state'.transform.dragging
          /\ state'.transform.lines_snapshot = {}
          /\ state'.transform.circles_snapshot = {}
          /\ stt'.mode = "None"]_vars

ButtonDowns == { Event("MOUSEBUTTONDOWN", Some(p), FALSE, FALSE) : p \in CanvasPos }

\* no index of the selection names a primitive of the scene
NoValidSelection(w) ==
    /\ \A i \in w.state.selection.selected_lines : i < 0 \/ i >= Len(w.scene.lines)
    /\ \A i \in w.state.selection.selected_circles : i < 0 \/ i >= Len(w.scene.circles)

\* the step is a button press that SelectTransformTool handles, the
\* dispatcher having switched tools if need be, with no valid selection
PressWithoutSelection ==
    \E ev \in ButtonDowns :
        /\ maybe_switch_tool(World).state.mode = "SELECT"
        /\ NoValidSelection(World)
        /\ World' = main_loop_event(World, ev)

(***************************************************************************)
(* C18.  With an empty selection, or one that holds no index valid for the *)
(* scene, a mouse-button-down in SelectTransformTool begins no move, scale *)
(* or rotate: state.transform is left as it is (dragging stays false, no   *)
(* snapshot is taken), no primitive changes, and a rubber band starts.     *)
(***************************************************************************)
Thm_C18_NoGestureWithoutSelection ==
    [][PressWithoutSelection =>
          /\ state'.transform = state.transform
          /\ ~state.transform.dragging => ~state'.transform.dragging
          /\ scene' = scene
          /\ state'.selection.selecting
          /\ stt'.mode = "selecting"]_vars

\* a rubber band is open while the selection holds nothing but an index
\* that Enter has left stale
Wit_C18_RubberBandOverStaleSelection ==
    /\ state.selection.selecting /\ stt.mode = "selecting"
    /\ state.selection.selected_lines # {}
    /\ NoValidSelection(World)
    /\ ~state.transform.dragging

\* what a step of the main loop is: the Clear Canvas button, the Enter key,
\* a button press that the line tool or the circle tool takes as its second
\* click, a mouse event handled by SelectTransformTool or ClipWindowTool.
\* The tool that handles an event is the tool of state.mode: the dispatcher
\* switches to it before it hands the event on.
IsClear == World' = main_loop_event(World, SidebarEvent("MOUSEBUTTONDOWN", "Clear Canvas"))

IsEnter == World' = main_loop_event(World, KeyDown("RETURN"))

CanvasMouseEvents ==
    { Event(type, Some(p), FALSE, FALSE) :
        type \in {"MOUSEBUTTONDOWN", "MOUSEMOTION", "MOUSEBUTTONUP"}, p \in CanvasPos }

SecondClickOfLine(ev) ==
    /\ ev \in ButtonDowns
    /\ state.mode \in {"LINE_DDA", "LINE_BRESENHAM"}
    /\ maybe_switch_tool(World).state.pending_line_start # None
    /\ World' = main_loop_event(World, ev)

SecondClickOfCircle(ev) ==
    /\ ev \in ButtonDowns
    /\ state.mode = "CIRCLE_BRESENHAM"
    /\ maybe_switch_tool(World).state.pending_circle_center # None
    /\ World' = main_loop_event(World, ev)

GestureOrWindowEdit ==
    /\ state.mode \in {"SELECT", "CLIP_WINDOW"}
    /\ \E ev \in CanvasMouseEvents : World' = main_loop_event(World, ev)

(***************************************************************************)
(* C19.  Primitives are created by appending only.  The second click of    *)
(* LineTool (CircleTool) appends one line (circle) from the pending point  *)
(* to the click at the end of its list and leaves every other primitive    *)
(* and index as it is; a list grows in no other way.  The number of        *)
(* circles goes down on Clear only, the number of lines on Clear or on     *)
(* the Enter that applies the clip; no mouse event handled by              *)
(* SelectTransformTool or ClipWindowTool changes either number.            *)
(***************************************************************************)
Thm_C19_AppendOnly ==
    [][/\ \A ev \in ButtonDowns :
             /\ SecondClickOfLine(ev) =>
                   /\ Len(scene'.lines) = Len(scene.lines) + 1
                   /\ SubSeq(scene'.lines, 1, Len(scene.lines)) = scene.lines
                   /\ LET ln == scene'.lines[Len(scene'.lines)]
                      IN  /\ <<ln.p0.x, ln.p0.y>> = state.pending_line_start[1]
                          /\ <<ln.p1.x, ln.p1.y>> = ev.cpos[1]
                   /\ scene'.circles = scene.circles
             /\ SecondClickOfCircle(ev) =>
                   /\ Len(scene'.circles) = Len(scene.circles) + 1
                   /\ SubSeq(scene'.circles, 1, Len(scene.circles)) = scene.circles
                   /\ LET c == scene'.circles[Len(scene'.circles)]
                      IN  <<c.c.x, c.c.y>> = state.pending_circle_center[1]
                   /\ scene'.lines = scene.lines
       /\ Len(scene'.lines) > Len(scene.lines) => \E ev \in ButtonDowns : SecondClickOfLine(ev)
       /\ Len(scene'.circles) > Len(scene.circles) => \E ev \in ButtonDowns : SecondClickOfCircle(ev)
       /\ Len(scene'.lines) < Len(scene.lines) => IsClear \/ IsEnter
       /\ Len(scene'.circles) < Len(scene.circles) => IsClear
       /\ (Len(scene'.lines) # Len(scene.lines) \/ Len(scene'.circles) # Len(scene.circles))
             => ~GestureOrWindowEdit]_vars

\* a second line has been appended behind a different first one
Wit_C19_SecondLineAppended ==
    /\ Len(scene.lines) = 2
    /\ scene.lines[1] # scene.lines[2]
    /\ state.pending_line_start = None


(***************************************************************************)
(* SpecLife: the life of a line in the application as wired in app.py,     *)
(* from its commit by one of the two line tools through the gestures of    *)
(* SelectTransformTool to the Enter that applies the clip.  The pointer    *)
(* is at a corner of the box (20, 40, 40, 40); in SELECT mode it is also   *)
(* at the centre of the box and at the rotation knob above it.  The        *)
(* bounds are those of Spec.                                               *)
(***************************************************************************)
LifePos == CanvasPos \cup {<<40, 60>>, <<40, 14>>}

\* an input of the pointer at p; p is a position the pointer takes in the
\* mode the dispatcher is about to serve
PointerInput(type, p) ==
    /\ p \in CanvasPos \/ state.mode = "SELECT"
    /\ Input(Event(type, Some(p), FALSE, FALSE))

LifePress ==
    \E p \in LifePos : PointerInput("MOUSEBUTTONDOWN", p)

LifeMotion ==
    \E p \in {<<60, 80>>, <<40, 60>>} : PointerInput("MOUSEMOTION", p)

LifeRelease ==
    PointerInput("MOUSEBUTTONUP", <<60, 80>>)

LifeLineButton ==
    \E label \in {"Line (DDA)", "Line (Bresenham)"} : Input(SidebarEvent("MOUSEBUTTONDOWN", label))

LifeKey ==
    \E key \in {"v", "1", "RETURN"} : Input(KeyDown(key))

NextLife ==
    \/ LifePress
    \/ LifeMotion
    \/ LifeRelease
    \/ LifeLineButton
    \/ LifeKey
    \/ DrawOverlay

SpecLife == Init /\ [][NextLife]_vars

\* the tags of a list of lines, in the order of the list
Tags(lines) == [i \in 1 .. Len(lines) |-> lines[i].algo]

\* the old indices whose line the Enter branch of app.py keeps
EnterSurvivors ==
    Survivors(scene.lines, state.clip.window[1], state.clip.preview_algo,
              IF state.selection.selected_lines = {} THEN NoneSelected
              ELSE Selected(state.selection.selected_lines))

TransformUpdate ==
    /\ state.transform.dragging
    /\ stt.mode \in {"moving", "scaling", "rotating"}
    /\ \E p \in LifePos :
          LET ev == Event("MOUSEMOTION", Some(p), FALSE, FALSE)
          IN  event_modelled(World, ev) /\ World' = main_loop_event(World, ev)

(***************************************************************************)
(* C20.  The tag of a line is fixed when the line is committed.  The       *)
(* second click of LineTool(algo) appends a line tagged algo behind the    *)
(* tags that were there.  No step that keeps the number of lines changes   *)
(* the tag at any index; an update of a move, scale or rotate gesture is   *)
(* such a step.  When Enter applies the clip and drops lines, the tags of  *)
(* the rebuilt list are the tags of the surviving lines in their old       *)
(* order.                                                                  *)
(***************************************************************************)
Thm_C20_TagFixedAtCreation ==
    [][/\ \A ev \in ButtonDowns :
             SecondClickOfLine(ev) =>
                 Tags(scene'.lines) =
                     Append(Tags(scene.lines), IF state.mode = "LINE_DDA" THEN "DDA" ELSE "BRESENHAM")
       /\ Len(scene'.lines) = Len(scene.lines) => Tags(scene'.lines) = Tags(scene.lines)
       /\ TransformUpdate => Len(scene'.lines) = Len(scene.lines)
       /\ Len(scene'.lines) < Len(scene.lines) =>
             IF IsEnter THEN Tags(scene'.lines) = Tags(PickLines(scene.lines, EnterSurvivors))
             ELSE scene'.lines = <<>>]_vars

\* a line committed by LineTool("BRESENHAM") has been rotated by the knob
\* until it lies level, and Enter has cut it at the left and the right edge
\* of the clip window
Wit_C20_RotatedThenClipped ==
    /\ scene.lines = <<Line(Point(60, 60), Point(20, 60), "BRESENHAM")>>
    /\ state.clip.window # None
    /\ state.clip.preview_algo = "None"


(***************************************************************************)
(* C22.  In the running application, when the mode is CLIP_WINDOW, a clip  *)
(* window exists and no mouse gesture of ClipWindowTool is in progress, a  *)
(* Delete key-down leaves state.clip.window = None.                        *)
(***************************************************************************)
Cex_C22_DeleteClearsWindow ==
    [][(/\ World' = main_loop_event(World, KeyDown("DELETE"))
        /\ state.mode = "CLIP_WINDOW"
        /\ last_mode = "CLIP_WINDOW"
        /\ state.clip.window # None
        /\ cwt.mode = "None"
        /\ ~state.clip.setting)
          => state'.clip.window = None]_vars


(***************************************************************************)
(* SpecDispatch: the application as wired in app.py, with a history of the *)
(* calls EventDispatcher makes on the registered tools.  Here ret is that  *)
(* history: the calls made for the latest input, whether the dispatcher    *)
(* handled it, and the tools whose enter has been called more recently     *)
(* than their exit; last keeps the input.                                  *)
(***************************************************************************)
\* app.py registers a tool for every mode but IDLE
has_tool(mode) == mode # "IDLE"

ToolCall(op, mode) == [op |-> op, tool |-> mode]

\* the calls of _maybe_switch_tool, in the order it makes them
switch_calls(w) ==
    IF w.state.mode = w.last_mode THEN <<>>
    ELSE (IF has_tool(w.last_mode) THEN <<ToolCall("exit", w.last_mode)>> ELSE <<>>)
         \o (IF has_tool(w.state.mode) THEN <<ToolCall("enter", w.state.mode)>> ELSE <<>>)

\* a slip: the event goes to the tool before the dispatcher looks at the mode
handle_calls_switches_late(w, ev) ==
    (IF ~ev.sidebar /\ has_tool(w.last_mode)
     THEN <<ToolCall("handle_canvas_event", w.last_mode)>> ELSE <<>>)
    \o switch_calls(w)

\* the calls of EventDispatcher.handle(ev), in the order it makes them
handle_calls(w, ev) ==
    switch_calls(w)
    \o (IF ~ev.sidebar /\ has_tool(maybe_switch_tool(w).state.mode)
        THEN <<ToolCall("handle_canvas_event", maybe_switch_tool(w).state.mode)>> ELSE <<>>)

\* the main loop hands the dispatcher every event that is neither QUIT nor KEYDOWN
dispatched(ev) == ev.type \notin {"QUIT", "KEYDOWN"}

\* the tools that are entered after the calls cs, when those of S were before
RECURSIVE EnteredAfter(_, _)
EnteredAfter(S, cs) ==
    IF cs = <<>> THEN S
    ELSE EnteredAfter(IF cs[1].op = "enter" THEN S \cup {cs[1].tool}
                      ELSE IF cs[1].op = "exit" THEN S \ {cs[1].tool}
                      ELSE S,
                      Tail(cs))

NoToolCalls == [calls |-> <<>>, dispatched |-> FALSE, entered |-> {}]

InitDispatch ==
    /\ call = NoCall
    /\ ret = NoToolCalls
    /\ AppConstructed

Dispatch(ev) ==
    /\ run = "running"
    /\ event_modelled(World, ev)
    /\ \E w \in {main_loop_event(World, ev)} :
          /\ WithinBounds(w, ev)
          /\ Becomes(w, ev)
          /\ Counted(w, ev)
    /\ \E cs \in {IF dispatched(ev) THEN handle_calls(World, ev) ELSE <<>>} :
          ret' = [calls |-> cs, dispatched |-> dispatched(ev),
                  entered |-> EnteredAfter(ret.entered, cs)]
    /\ UNCHANGED <<call, moves>>

DispatchPress == Dispatch(Event("MOUSEBUTTONDOWN", Some(<<20, 40>>), FALSE, FALSE))

DispatchMotion == Dispatch(Event("MOUSEMOTION", Some(<<60, 80>>), FALSE, FALSE))

DispatchRelease == Dispatch(Event("MOUSEBUTTONUP", Some(<<60, 80>>), FALSE, FALSE))

DispatchButton ==
    \E label \in ButtonLabels : Dispatch(SidebarEvent("MOUSEBUTTONDOWN", label))

DispatchSidebarMotion == Dispatch(SidebarEvent("MOUSEMOTION", ""))

DispatchKey ==
    \E key \in {"v", "1", "DELETE"} : Dispatch(KeyDown(key))

NextDispatch ==
    \/ DispatchPress
    \/ DispatchMotion
    \/ DispatchRelease
    \/ DispatchButton
    \/ DispatchSidebarMotion
    \/ DispatchKey

SpecDispatch == InitDispatch /\ [][NextDispatch]_vars

\* the world after the tool calls cs are made in their order, ev being the
\* event a handle_canvas_event call receives
RECURSIVE AfterCalls(_, _, _)
AfterCalls(w, cs, ev) ==
    IF cs = <<>> THEN w
    ELSE AfterCalls(IF cs[1].op = "exit" THEN tool_exit(w, cs[1].tool)
                    ELSE IF cs[1].op = "enter" THEN tool_enter(w, cs[1].tool)
                    ELSE tool_handle_canvas_event(w, ev),
                    Tail(cs), ev)

CallsAt(cs, op, mode) == { k \in 1 .. Len(cs) : cs[k] = ToolCall(op, mode) }

HandleCallsAt(cs) == { k \in 1 .. Len(cs) : cs[k].op = "handle_canvas_event" }

(* C21.  Whenever EventDispatcher invokes a tool's handle_canvas_event,    *)
(* that tool is the one registered for the current state.mode and its      *)
(* enter has been called more recently than its exit; when the dispatcher  *)
(* observes the mode changed from A to B, A.exit is called before B.enter, *)
(* and B.enter before B receives any event; the step of the application is *)
(* the effect of exactly these calls in this order.                        *)
Thm_C21_EnterExitOnModeChange ==
    [][ /\ \A k \in HandleCallsAt(ret'.calls) :
              /\ ret'.calls[k].tool = state.mode
              /\ ret'.calls[k].tool \in EnteredAfter(ret.entered, SubSeq(ret'.calls, 1, k - 1))
        /\ (ret'.dispatched /\ state.mode # last_mode) =>
              /\ has_tool(last_mode) => CallsAt(ret'.calls, "exit", last_mode) = {1}
              /\ has_tool(state.mode) =>
                    \E i \in CallsAt(ret'.calls, "enter", state.mode) :
                        /\ \A j \in CallsAt(ret'.calls, "exit", last_mode) : j < i
                        /\ \A k \in HandleCallsAt(ret'.calls) : i < k
              /\ last_mode' = state.mode
        /\ (ret'.dispatched /\ state.mode = last_mode) =>
              \A k \in 1 .. Len(ret'.calls) : ret'.calls[k].op = "handle_canvas_event"
        /\ ret'.dispatched =>
              World' = (IF last'.sidebar
                        THEN sidebar_handle_event(
                                 [AfterCalls(World, ret'.calls, last') EXCEPT !.last_mode = state.mode],
                                 last')
                        ELSE [AfterCalls(World, ret'.calls, last') EXCEPT !.last_mode = state.mode])
        /\ ret'.entered = IF has_tool(last_mode') THEN {last_mode'} ELSE {}
      ]_vars

\* the dispatcher saw the mode go from LINE_DDA to SELECT on a canvas event
Wit_C21_SwitchThenHandle ==
    ret.calls = <<ToolCall("exit", "LINE_DDA"), ToolCall("enter", "SELECT"),
                  ToolCall("handle_canvas_event", "SELECT")>>


(***************************************************************************)
(* SpecResize: resize_rect_from_handle called once on a starting rect, a   *)
(* handle, a mouse position, the two modifiers and a minimum size, with    *)
(* the canvas as bounds.                                                   *)
(***************************************************************************)
ResizeW == 8
ResizeH == 6

ResizeRects ==
    { Rect4(l, t, w, h) : l \in {0, 1}, t \in {0, 1}, w \in {0, 1, 2, 4}, h \in {0, 1, 2, 3} }

ResizeMouse == {0 - 1, 1, 2, 4, 5, ResizeW + 1} \X {0 - 1, 1, 2, 4, ResizeH + 1}

ResizeMins == {<<2, 2>>, <<3, 2>>}

ResizeCalls ==
    [fn : {"resize_rect_from_handle"}, rect0 : ResizeRects, handle : ResizeHandles,
     mouse : ResizeMouse, keep_aspect : BOOLEAN, from_center : BOOLEAN, mins : ResizeMins]

NoResizeRet == [done |-> FALSE, raised |-> "None", rect |-> Rect4(0, 0, 0, 0)]

InitResize ==
    /\ call \in ResizeCalls
    /\ ret = NoResizeRet
    /\ AppConstructed

CallResize ==
    /\ call.fn = "resize_rect_from_handle"
    /\ ~ret.done
    /\ \E r \in {resize_rect_from_handle(call.rect0, call.handle, call.mouse, call.keep_aspect,
                                         call.from_center, call.mins[1], call.mins[2],
                                         Some(<<ResizeW, ResizeH>>))} :
          ret' = [done |-> TRUE, raised |-> r.raised, rect |-> r.rect]
    /\ UNCHANGED call
    /\ UNCHANGED appVars

NextResize == CallResize

SpecResize == InitResize /\ [][NextResize]_vars

(* C23.  resize_rect_from_handle with bounds (W, H) returns, for every     *)
(* starting rect, handle, mouse position and modifier combination, a rect  *)
(* that is normalized and inside the canvas: w >= 0, h >= 0, 0 <= l,       *)
(* l + w <= W, 0 <= t, t + h <= H.                                         *)
Cex_C23_ResizedInsideCanvas ==
    ret.done =>
        /\ ret.raised = "None"
        /\ ret.rect.width >= 0 /\ ret.rect.height >= 0
        /\ 0 <= ret.rect.left /\ ret.rect.left + ret.rect.width <= ResizeW
        /\ 0 <= ret.rect.top /\ ret.rect.top + ret.rect.height <= ResizeH

(* C24.  For every starting rect, each of the 8 handles and every mouse    *)
(* position, with min_w <= W and min_h <= H, the rect returned has         *)
(* width >= min_w and height >= min_h.                                     *)
Cex_C24_MinimumSize ==
    (ret.done /\ ret.raised = "None") =>
        ret.rect.width >= call.mins[1] /\ ret.rect.height >= call.mins[2]

(* C25.  With keep_aspect, a corner-handle resize of a rect with h0 # 0    *)
(* and w0 # 0 returns a rect whose height is width / aspect0,              *)
(* aspect0 = w0 / h0, up to the rounding of the four edges to integers     *)
(* (each edge moves by at most 1/2, so width and height by at most 1):     *)
(* some width within 1 of the one returned and some height within 1 of    *)
(* the one returned are in the ratio w0 : h0.                              *)
Cex_C25_AspectKept ==
    (/\ ret.done /\ ret.raised = "None"
     /\ call.keep_aspect /\ call.handle \in CornerHandles
     /\ call.rect0.height # 0 /\ call.rect0.width # 0)
        => /\ (ret.rect.width - 1) * call.rect0.height <= (ret.rect.height + 1) * call.rect0.width
           /\ (ret.rect.height - 1) * call.rect0.width <= (ret.rect.width + 1) * call.rect0.height


(***************************************************************************)
(* SpecTransform: the pure helpers of the selection tool, each called on   *)
(* inputs from bounded sets: _selection_bbox on a scene and a selection,   *)
(* scale_point_xy_i and the radius rule of _apply_scale with both factors  *)
(* 1, rotate_point_i by an angle and then by the opposite angle.           *)
(***************************************************************************)
MaxBBoxCoord == 2
MaxTurnCoord == 3

BBoxPoints == { Point(x, y) : x \in 0 .. MaxBBoxCoord, y \in {0, MaxBBoxCoord} }
BBoxLines == { Line(p, q, "DDA") : p \in {Point(0, 0), Point(1, MaxBBoxCoord)}, q \in BBoxPoints }
BBoxCircles == { Circle(Point(1, 1), r) : r \in {0, 1, 3} }
BBoxScenes ==
    { [lines |-> ls, circles |-> cs] :
        ls \in {<<>>} \cup { <<a>> : a \in BBoxLines }
                      \cup { <<a, b>> : a \in {Line(Point(1, 0), Point(1, MaxBBoxCoord), "DDA")},
                                        b \in BBoxLines },
        cs \in {<<>>} \cup { <<c>> : c \in BBoxCircles } }

\* indices as the selection may hold them: valid ones, stale ones
BBoxIndexSets == {{}, {0}, {1}, {0, 1}, {2}, {0, 2}}

BBoxCalls ==
    [fn : {"selection_bbox"}, scene : BBoxScenes,
     selected_lines : BBoxIndexSets, selected_circles : {{}, {0}, {1}}]

\* pivots are given doubled, so that half-integer centres are integers
ScaleCalls ==
    [fn : {"scale_point_xy_i"}, px : 0 - 1 .. MaxTurnCoord, py : 0 - 1 .. MaxTurnCoord,
     c2 : (0 .. 2 * MaxTurnCoord) \X (0 .. 2 * MaxTurnCoord), r0 : 0 .. 2, uniform : BOOLEAN]

\* cos, sin of the multiples of 45 degrees, up to the factor sqrt(2)/2 of
\* the diagonal ones
Turns ==
    {<<1, 0, FALSE>>, <<1, 1, TRUE>>, <<0, 1, FALSE>>, <<0 - 1, 1, TRUE>>,
     <<0 - 1, 0, FALSE>>, <<0 - 1, 0 - 1, TRUE>>, <<0, 0 - 1, FALSE>>, <<1, 0 - 1, TRUE>>}

\* the turn by -theta
Opposite(rot) == <<rot[1], 0 - rot[2], rot[3]>>

RotateCalls ==
    [fn : {"rotate_point_i"}, px : 0 - 1 .. MaxTurnCoord, py : 0 - 1 .. MaxTurnCoord,
     c2 : (0 .. MaxTurnCoord) \X (0 .. MaxTurnCoord), rot : Turns]

NoTransformRet == [stage |-> 0]

InitTransformCalls ==
    /\ call \in BBoxCalls \cup ScaleCalls \cup RotateCalls
    /\ ret = NoTransformRet
    /\ AppConstructed

BBoxState(c) ==
    [selection |-> [selected_lines |-> c.selected_lines, selected_circles |-> c.selected_circles]]

CallSelectionBBox ==
    /\ call.fn = "selection_bbox"
    /\ ret.stage = 0
    /\ ret' = [stage |-> 1, bbox |-> selection_bbox(call.scene, BBoxState(call))]
    /\ UNCHANGED call
    /\ UNCHANGED appVars

CallScaleByOne ==
    /\ call.fn = "scale_point_xy_i"
    /\ ret.stage = 0
    /\ ret' = [stage |-> 1,
               point |-> scale_point_xy_i(call.px, call.py, call.c2, <<1, 1>>, <<1, 1>>),
               r |-> scaled_radius(call.r0, <<1, 1>>, <<1, 1>>, call.uniform)]
    /\ UNCHANGED call
    /\ UNCHANGED appVars

CallRotate ==
    /\ call.fn = "rotate_point_i"
    /\ ret.stage = 0
    /\ \E p \in rotate_point_outcomes(call.px, call.py, call.c2, call.rot) :
          ret' = [stage |-> 1, point |-> p]
    /\ UNCHANGED call
    /\ UNCHANGED appVars

CallRotateBack ==
    /\ call.fn = "rotate_point_i"
    /\ ret.stage = 1
    /\ \E p \in rotate_point_outcomes(ret.point[1], ret.point[2], call.c2, Opposite(call.rot)) :
          ret' = [stage |-> 2, turned |-> ret.point, point |-> p]
    /\ UNCHANGED call
    /\ UNCHANGED appVars

NextTransform == CallSelectionBBox \/ CallScaleByOne \/ CallRotate \/ CallRotateBack

SpecTransform == InitTransformCalls /\ [][NextTransform]_vars


\* the boxes <<x0, y0, x1, y1>> the selection of a call consists of: an
\* endpoint of a selected line is a box of one point, a selected circle is
\* its Circle.bbox; indices outside the scene select nothing
SelectedBoxes(c) ==
    UNION { {<<c.scene.lines[i + 1].p0.x, c.scene.lines[i + 1].p0.y,
               c.scene.lines[i + 1].p0.x, c.scene.lines[i + 1].p0.y>>,
             <<c.scene.lines[i + 1].p1.x, c.scene.lines[i + 1].p1.y,
               c.scene.lines[i + 1].p1.x, c.scene.lines[i + 1].p1.y>>} :
            i \in { j \in c.selected_lines : 0 <= j /\ j < Len(c.scene.lines) } }
    \cup { <<circle_bbox(c.scene.circles[i + 1]).left,
             circle_bbox(c.scene.circles[i + 1]).top,
             circle_bbox(c.scene.circles[i + 1]).left + circle_bbox(c.scene.circles[i + 1]).width,
             circle_bbox(c.scene.circles[i + 1]).top + circle_bbox(c.scene.circles[i + 1]).height>> :
           i \in { j \in c.selected_circles : 0 <= j /\ j < Len(c.scene.circles) } }

(* C26.  The selection bounding box is the union of both endpoints of      *)
(* every selected line and the box (cx-r, cy-r, 2r, 2r) of every selected  *)
(* circle: it contains each of them, boundary inclusive, each of its four  *)
(* edges is touched by one of them, and it is None exactly when no         *)
(* selected index is valid for the scene.                                  *)
Thm_C26_BBoxIsUnion ==
    (call.fn = "selection_bbox" /\ ret.stage = 1) =>
        /\ ret.bbox = None <=> SelectedBoxes(call) = {}
        /\ ret.bbox # None =>
              /\ \A b \in SelectedBoxes(call) :
                    /\ ret.bbox[1].left <= b[1] /\ b[3] <= ret.bbox[1].left + ret.bbox[1].width
                    /\ ret.bbox[1].top <= b[2] /\ b[4] <= ret.bbox[1].top + ret.bbox[1].height
              /\ \E b \in SelectedBoxes(call) : b[1] = ret.bbox[1].left
              /\ \E b \in SelectedBoxes(call) : b[2] = ret.bbox[1].top
              /\ \E b \in SelectedBoxes(call) : b[3] = ret.bbox[1].left + ret.bbox[1].width
              /\ \E b \in SelectedBoxes(call) : b[4] = ret.bbox[1].top + ret.bbox[1].height

\* a line, a circle larger than the line and a stale index are selected
Wit_C26_LineCircleAndStaleIndex ==
    /\ call.fn = "selection_bbox" /\ ret.stage = 1
    /\ call.selected_lines = {0, 2} /\ call.selected_circles = {0}
    /\ call.scene.lines = <<Line(Point(0, 0), Point(2, 0), "DDA")>>
    /\ call.scene.circles = <<Circle(Point(1, 1), 3)>>
    /\ ret.bbox = Some(Rect4(0 - 2, 0 - 2, 6, 6))

(* C27.  Scaling with sx = sy = 1 about any pivot, half-integer pivots     *)
(* included, leaves every coordinate unchanged, and a circle's radius      *)
(* stays r0.                                                               *)
Thm_C27_ScaleByOneIsIdentity ==
    (call.fn = "scale_point_xy_i" /\ ret.stage = 1) =>
        ret.point = <<call.px, call.py>> /\ ret.r = call.r0

\* the pivot is (1/2, 3/2), the point (1, 1), the radius 2
Wit_C27_HalfIntegerPivot ==
    /\ call.fn = "scale_point_xy_i" /\ ret.stage = 1
    /\ call.c2 = <<1, 3>> /\ call.px = 1 /\ call.py = 1 /\ call.r0 = 2
    /\ ret.point = <<1, 1>>

(* C28.  Rotating an integer point by theta with rotate_point_i and then   *)
(* the rounded result by -theta about the same pivot gives a point whose   *)
(* x and y each differ from the original by at most 1.                     *)
Thm_C28_RotateThereAndBack ==
    (call.fn = "rotate_point_i" /\ ret.stage = 2) =>
        Abs(ret.point[1] - call.px) <= 1 /\ Abs(ret.point[2] - call.py) <= 1

\* (-1, -1) turned by 45 degrees about (1/2, 1/2) is (0, -2) after rounding,
\* and that turned back is (-2, -1): one off in x
Wit_C28_BackOneOff ==
    /\ call.fn = "rotate_point_i" /\ ret.stage = 2
    /\ call.px = 0 - 1 /\ call.py = 0 - 1 /\ call.c2 = <<1, 1>> /\ call.rot = <<1, 1, TRUE>>
    /\ ret.turned = <<0, 0 - 2>>
    /\ ret.point = <<0 - 2, 0 - 1>>


DividesByZero(divisors) == \E k \in 1 .. Len(divisors) : divisors[k] = 0

(* C29.  Neither clipper divides by zero, for any integer segment, the     *)
(* zero-length, horizontal and vertical ones included, and any rectangle,  *)
(* those of width or height 0 included; both return endpoints or None.     *)
Thm_C29_NoDivisionByZero ==
    call.fn = "clip" =>
        /\ ret.cs_done =>
              /\ ~DividesByZero(cs_divisors(call.p0.x, call.p0.y, call.p1.x, call.p1.y,
                                            call.rect, MaxCSIter))
              /\ ret.cs.kind \in {"Some", "None"}
        /\ ret.lb_done =>
              /\ ~DividesByZero(lb_divisors(call.p0, call.p1, call.rect))
              /\ ret.lb.kind \in {"Some", "None"}

\* a vertical segment through a rectangle of width 0: both clippers cut it
\* to the rectangle, dividing by dy only
Wit_C29_VerticalThroughThinRect ==
    /\ call = ClipCall(0, 0 - 1, 0, 2, 0, 0, 0, 1)
    /\ ret.cs_done /\ ret.lb_done
    /\ ret.cs = Endpoints(0, 0, 0, 1)
    /\ ret.lb = Endpoints(0, 0, 0, 1)
    /\ lb_divisors(call.p0, call.p1, call.rect) = <<0 - 3, 3>>
    /\ cs_divisors(call.p0.x, call.p0.y, call.p1.x, call.p1.y, call.rect, MaxCSIter) = <<3, 2>>

(* C30.  The boundary priority order of Cohen-Sutherland does not affect   *)
(* the accept/reject outcome: the run with the order TOP, BOTTOM, RIGHT,   *)
(* LEFT returns None exactly when the run with any other permutation of    *)
(* the four boundaries returns None.                                       *)
Cex_C30_OrderKeepsOutcome ==
    (call.fn = "clip" /\ ret.cs_done) =>
        \A order \in BoundaryOrders :
            (cohen_sutherland_clip_in(order, call.p0, call.p1, call.rect).kind = "None")
                <=> (ret.cs.kind = "None")


(* C31.  The Cohen-Sutherland loop terminates for every integer segment    *)
(* and every rectangle with width, height >= 0: after finitely many passes *)
(* (at most four, one for each boundary) it reaches the accept or the      *)
(* reject return, although each intersection is rounded before its region  *)
(* code is recomputed.                                                     *)
Thm_C31_CohenSutherlandTerminates ==
    (call.fn = "clip" /\ ret.cs_done) =>
        /\ ret.cs.kind # "Unfinished"
        /\ cs_passes(call.p0.x, call.p0.y, call.p1.x, call.p1.y, call.rect, MaxCSIter) <= 4

\* (3,-1)-(-1,1) against the rectangle of the one point (0,0): the first
\* endpoint is cut at the top to (1,0), then at the right, where y = 0.5 is
\* rounded to 0; the second is cut at the bottom to (0,0)
Wit_C31_ThreeRoundedPasses ==
    /\ call = ClipCall(3, 0 - 1, 0 - 1, 1, 0, 0, 0, 0)
    /\ ret.cs_done
    /\ ret.cs = Endpoints(0, 0, 0, 0)
    /\ cs_passes(call.p0.x, call.p0.y, call.p1.x, call.p1.y, call.rect, MaxCSIter) = 3

(* C32.  draw_line_bresenham terminates for every pair of integer          *)
(* endpoints: the current point reaches p1 after exactly max(|dx|, |dy|)   *)
(* steps, so exactly max(|dx|, |dy|) + 1 pixels are emitted, and           *)
(* consecutive pixels differ by at most 1 in x and in y.                   *)
Thm_C32_BresenhamStepCount ==
    (call.fn = "draw_line" /\ ret.bresenham_done) =>
        /\ ret.finished
        /\ Len(ret.bresenham)
             = Max(Abs(call.p1.x - call.p0.x), Abs(call.p1.y - call.p0.y)) + 1
        /\ \A k \in 1 .. Len(ret.bresenham) - 1 :
              /\ Abs(ret.bresenham[k + 1][1] - ret.bresenham[k][1]) <= 1
              /\ Abs(ret.bresenham[k + 1][2] - ret.bresenham[k][2]) <= 1
              /\ ret.bresenham[k + 1] # ret.bresenham[k]

\* a shallow segment to the upper left: 4 pixels for |dx| = 3, |dy| = 1
Wit_C32_ShallowSegment ==
    /\ call = DrawLineCall(1, 0, 0 - 2, 0 - 1)
    /\ ret.bresenham_done /\ ret.finished
    /\ Len(ret.bresenham) = 4
    /\ ret.bresenham[1] = <<1, 0>> /\ ret.bresenham[4] = <<0 - 2, 0 - 1>>

\* the closed rectangle that a rubber band spans between the point where the
\* button went down and the pointer's latest position
InBand(a, b, p) ==
    /\ Min(a[1], b[1]) <= p.x /\ p.x <= Max(a[1], b[1])
    /\ Min(a[2], b[2]) <= p.y /\ p.y <= Max(a[2], b[2])

RubberBandEnds ==
    /\ state.mode = "SELECT"
    /\ state.selection.selecting
    /\ state.selection.anchor # None
    /\ state.selection.current # None
    /\ last'.type = "MOUSEBUTTONUP"

(***************************************************************************)
(* C33.  When a rubber-band selection ends, the selection is replaced, not *)
(* extended: selected_lines becomes exactly the indices of the lines with  *)
(* an endpoint inside the dragged rectangle (boundary included),           *)
(* selected_circles exactly the indices of the circles whose centre is     *)
(* inside, and every selected index is valid for the scene of that moment. *)
(***************************************************************************)
Thm_C33_RubberBandReplacesSelection ==
    [][RubberBandEnds =>
          LET a == state.selection.anchor[1]
              b == state.selection.current[1]
          IN  /\ ~state'.selection.selecting
              /\ state'.selection.selected_lines =
                     { i \in 0 .. Len(scene.lines) - 1 :
                          InBand(a, b, scene.lines[i + 1].p0) \/ InBand(a, b, scene.lines[i + 1].p1) }
              /\ state'.selection.selected_circles =
                     { i \in 0 .. Len(scene.circles) - 1 : InBand(a, b, scene.circles[i + 1].c) }
              /\ \A i \in state'.selection.selected_lines : i < Len(scene'.lines)
              /\ \A i \in state'.selection.selected_circles : i < Len(scene'.circles)]_vars

\* a scene with a line and two circles, all selected at first: a rubber band
\* has ended and left only the second circle selected
Wit_C33_BandDropsEarlierSelection ==
    /\ last.type = "MOUSEBUTTONUP"
    /\ Len(scene.lines) = 1
    /\ Len(scene.circles) = 2
    /\ ~state.selection.selecting
    /\ state.selection.selected_lines = {}
    /\ state.selection.selected_circles # {}
    /\ state.selection.selected_circles # {0, 1}


(***************************************************************************)
(* SpecPair: the application of SpecLife with two lines on the canvas.     *)
(* The line tool has committed them with four clicks; the inputs and       *)
(* their bounds are those of SpecLife from there on, with MaxPairClicks  *)
(* presses left of the MaxClicks.                                          *)
(***************************************************************************)
\* the two lines, as LineTool commits them on the second click of each, and
\* the mode of the tool that drew them
PairScenes ==
    { [lines |-> <<Line(Point(20, 40), Point(20, 40), tag), Line(Point(60, 80), Point(60, 80), tag)>>,
       circles |-> <<>>] : tag \in {"DDA", "BRESENHAM"} }
    \cup { [lines |-> <<Line(Point(60, 80), Point(60, 80), "DDA"), Line(Point(20, 40), Point(60, 80), "DDA")>>,
             circles |-> <<>>] }

\* the bound of the model: a mouse button goes down over the canvas
\* MaxPairClicks times at most after the lines are drawn, once for a
\* rubber band and once for a clip window
MaxPairClicks == 2

line_mode(tag) == IF tag = "DDA" THEN "LINE_DDA" ELSE "LINE_BRESENHAM"

InitPair ==
    /\ call = NoCall
    /\ ret = NoCall
    /\ \E sc \in PairScenes :
          /\ scene = sc
          /\ state = [InitState EXCEPT !.mode = line_mode(sc.lines[1].algo)]
          /\ last_mode = line_mode(sc.lines[1].algo)
    /\ stt = InitSelectTool
    /\ cwt = InitClipTool
    /\ run = "running"
    /\ last = NoEvent
    /\ clicks = MaxClicks - MaxPairClicks
    /\ switches = 0
    /\ moves = 0

SpecPair == InitPair /\ [][NextLife]_vars

\* the indices of the lines that apply_clipping_to_lines keeps: those outside
\* the target and those of which the clip leaves a segment
KeptIndices(lines, rect, algo, target) ==
    { j \in 0 .. Len(lines) - 1 :
         j \notin target \/ clip_with(algo, lines[j + 1], rect).kind = "Some" }

\* the index before the clip of the line that is at index i after it
IndexBefore(kept, i) == CHOOSE j \in kept : Cardinality({ k \in kept : k < j }) = i

\* Enter applies the preview to the selected lines
EnterClipsSelected ==
    /\ run = "running" /\ run' = "running"
    /\ state.clip.window # None
    /\ state.clip.preview_algo \in {"CS", "LB"}
    /\ state.selection.selected_lines # {}
    /\ scene' = key_return(World).scene
    /\ state' = key_return(World).state
    /\ state'.clip.preview_algo = "None"

(***************************************************************************)
(* C34.  After a clip restricted to the selected lines has been applied,   *)
(* every index that is still in state.selection.selected_lines and can be  *)
(* used (it is below len(scene.lines)) refers to a line that was selected  *)
(* before the clip: no index comes to denote a line that was not selected. *)
(***************************************************************************)
Cex_C34_IndexDenotesSelectedLine ==
    [][EnterClipsSelected =>
          LET kept == KeptIndices(scene.lines, state.clip.window[1], state.clip.preview_algo,
                                  state.selection.selected_lines)
          IN  /\ Len(scene'.lines) = Cardinality(kept)
              /\ \A i \in state'.selection.selected_lines :
                    i < Len(scene'.lines) =>
                        IndexBefore(kept, i) \in state.selection.selected_lines]_vars

\* the call clips every line: no selection is given, or an empty one
ClipsAllLines == ~call.selected.given \/ call.selected.idx = {}

\* apply_clipping_to_lines once more, on the lines the first call has left
AppliedAgain == apply_clipping_to_lines(ret.lines, call.rect, call.algo, call.selected)

(***************************************************************************)
(* C35.  Destructive clipping is idempotent: apply_clipping_to_lines on    *)
(* all lines, applied again with the same rectangle and the same           *)
(* algorithm, removes nothing (removed = 0) and leaves the endpoints and   *)
(* the tag of every line as they were after the first application.         *)
(***************************************************************************)
Thm_C35_ClippingIsIdempotent ==
    (call.fn = "apply_clipping_to_lines" /\ ret.done /\ ClipsAllLines) =>
        /\ AppliedAgain.removed = 0
        /\ AppliedAgain.kept = Len(ret.lines)
        /\ AppliedAgain.lines = ret.lines

\* five lines, of which the first application drops two and shortens three
\* at the rectangle's edge
Wit_C35_ShortenedLinesClippedAgain ==
    /\ call.fn = "apply_clipping_to_lines" /\ ret.done /\ ClipsAllLines
    /\ call.lines = FiveLines
    /\ call.algo = "LB"
    /\ ret.removed = 2
    /\ ret.lines = << Line(Point(1, 1), Point(2, 1), "DDA"),
                      Line(Point(0, 1), Point(2, 1), "BRESENHAM"),
                      Line(Point(1, 0), Point(1, 1), "DDA") >>
    /\ AppliedAgain.lines = ret.lines

(***************************************************************************)
(* C36.  state.clip.preview_algo is defined whenever it is read: no step   *)
(* of the main loop ends in AttributeError while the attribute has not     *)
(* been assigned (the resizing drag apart, which faults on another name),  *)
(* so creating a clip window and then moving it or pressing Enter never    *)
(* faults.                                                                 *)
(***************************************************************************)
Cex_C36_PreviewAlgoAssignedBeforeRead ==
    [][(run = "running" /\ state.clip.preview_algo = "absent" /\ cwt.mode # "resizing")
          => run' # "AttributeError"]_vars

\* no gesture is in progress in the world w
NoGestureIn(w) ==
    /\ ~w.state.selection.selecting
    /\ ~w.state.transform.dragging
    /\ ~w.state.clip.setting

(***************************************************************************)
(* C37.  A tool switch cancels any gesture in progress: once the           *)
(* dispatcher has run the old tool's exit, also for a mode change made by  *)
(* a key in the middle of a drag, state.selection.selecting,               *)
(* state.transform.dragging and state.clip.setting are all false.          *)
(***************************************************************************)
Cex_C37_ExitCancelsGestures ==
    [][\A k \in CallsAt(ret'.calls, "exit", last_mode) :
          NoGestureIn(AfterCalls(World, SubSeq(ret'.calls, 1, k), last'))]_vars

(***************************************************************************)
(* SpecWindow: the clip window in the application.  The pointer is at two  *)
(* corners of the canvas, at a corner of the box (0, 0, 60, 80) and at its *)
(* centre; CLIP_WINDOW mode is entered by the key 1 or by the sidebar      *)
(* button.  The bounds are those of Spec.                                  *)
(***************************************************************************)
WindowPos == {<<0, 0>>, <<30, 40>>, <<60, 80>>, <<CANVAS_W - 1, CANVAS_H - 1>>}

WindowPress ==
    \E p \in WindowPos : Input(Event("MOUSEBUTTONDOWN", Some(p), FALSE, FALSE))

WindowMotion ==
    \E p \in WindowPos : Input(Event("MOUSEMOTION", Some(p), FALSE, FALSE))

WindowRelease ==
    \E p \in WindowPos : Input(Event("MOUSEBUTTONUP", Some(p), FALSE, FALSE))

WindowButton == Input(SidebarEvent("MOUSEBUTTONDOWN", "Set Clip Window"))

WindowKey == Input(KeyDown("1"))

NextWindow ==
    \/ WindowPress
    \/ WindowMotion
    \/ WindowRelease
    \/ WindowButton
    \/ WindowKey

SpecWindow == Init /\ [][NextWindow]_vars

\* the rectangle lies inside the canvas and has an interior
InsideCanvas(r) ==
    /\ r.width >= 1 /\ r.height >= 1
    /\ 0 <= r.left /\ r.left + r.width <= CANVAS_W
    /\ 0 <= r.top /\ r.top + r.height <= CANVAS_H

(***************************************************************************)
(* C38.  A clip window, when present, lies inside the canvas and is not    *)
(* degenerate: width >= 1, height >= 1, 0 <= left, left + width <=         *)
(* CANVAS_W, 0 <= top, top + height <= CANVAS_H; and the drag that moves   *)
(* the window never changes its width or height.                           *)
(***************************************************************************)
Thm_C38_WindowInsideCanvas ==
    [][/\ state'.clip.window # None => InsideCanvas(state'.clip.window[1])
       /\ (cwt.mode = "moving" /\ state.clip.window # None /\ state'.clip.window # None) =>
             /\ state'.clip.window[1].width = state.clip.window[1].width
             /\ state'.clip.window[1].height = state.clip.window[1].height]_vars

\* the window (0, 0, 60, 80), held at its centre, has been dragged to the
\* bottom right corner of the canvas and stopped at the edges
Wit_C38_MovedAgainstTheEdge ==
    /\ run = "running"
    /\ cwt.mode = "moving"
    /\ cwt.rect0 = Some(Rect4(0, 0, 60, 80))
    /\ state.clip.window = Some(Rect4(CANVAS_W - 60, CANVAS_H - 80, 60, 80))

====
